---- MODULE Spec2Model ----
(***************************************************************************)
(* Protea supervisor kernel (ring0/sentinel.py), its heartbeat monitor     *)
(* (ring0/heartbeat.py), the worker's heartbeat writer (ring2/main.py),    *)
(* the shared SentinelState and the operator commands that set its flags   *)
(* (ring1/telegram_bot.py), the task executor's p0_active flag             *)
(* (ring1/task_executor.py) and the revision store (ring0/git_manager.py). *)
(*                                                                         *)
(* Time is a discrete clock `now`.  It advances where the kernel sleeps:   *)
(* time.sleep(interval) at the top of the loop and the polling sleeps of   *)
(* wait_for_heartbeat; within one tick of the loop the clock stands still, *)
(* so run()'s local `elapsed` is now - start_time throughout the tick.     *)
(* Scores are kept in hundredths (ScoreScale).                             *)
(*                                                                         *)
(* The kernel's position pc carries the branch it is in: the suffix _s is  *)
(* the "survived" block (lines 203-253), _f the failure block (259-305).   *)
(***************************************************************************)
EXTENDS Integers, Sequences, FiniteSets, TLC

VARIABLES
    pc,             \* position of the kernel in run()
    generation,     \* run(): generation
    params,         \* run(): params = generate_params(generation, seed)
    last_good_hash, \* run(): last_good_hash, 0 is None
    proc,           \* run(): proc, the pid of the Popen handle, 0 is None
    start_time,     \* run(): start_time
    now,            \* time.time()
    live,           \* pids of running worker processes
    zombie,         \* pids of exited worker processes the kernel has not reaped
    spawned,        \* number of workers started so far (the last pid handed out)
    hbFile,         \* the .heartbeat file
    wbuf,           \* a worker inside write_text: <<pid, ts>> still to be written
    state,          \* SentinelState fields guarded by state.lock
    pause_event,    \* SentinelState.pause_event
    kill_event,     \* SentinelState.kill_event
    p0_active,      \* state.p0_active (set and cleared by the task executor)
    botRunning,     \* TelegramBot._running
    fitness,        \* fitness_log rows, in insertion order
    revs,           \* revision store: commits in order, HEAD is the last
    tree,           \* content of the worker source tree, 0 is no main.py
    tick_outcome,   \* history: what the kernel decided on its latest tick
    hbLast,         \* history: the latest (pid, ts) pair a write_text completed
    killSets,       \* history: number of /kill commands handled
    killRestarts,   \* history: number of _stop_ring2 calls on the kill path
    evolves,        \* history: number of _try_evolve calls
    lock,           \* SentinelState.lock: "free" or the thread that holds it
    rpc,            \* position of a thread inside SentinelState.snapshot()
    snap,           \* the dict snapshot() is building
    committed,      \* history: the fields as the kernel's latest `with` block left them
    task_queue,     \* state.task_queue: tasks waiting for the executor
    exec_pc,        \* position of the task executor thread
    task,           \* TaskExecutor.run(): task, 0 is none
    response,       \* _execute_task(): response
    replies,        \* texts handed to the reply channel, in order
    enqueued,       \* history: number of tasks put on the queue
    dequeued,       \* history: tasks in the order the executor took them
    finished,       \* history: number of _execute_task calls that have ended
    bot_pc,         \* position of the bot thread in TelegramBot.run()
    updates,        \* run(): the updates of the current poll still to be handled
    offset,         \* TelegramBot._offset
    stream,         \* the transport: every update sent to the bot, update_id = position
    handled,        \* history: the updates the bot's loop has gone past, in order
    call,           \* a function under examination: its arguments and local state
    ret,            \* what that function has returned, "none" before it returns
    index           \* the revision store's staging area (git index)

vars == <<pc, generation, params, last_good_hash, proc, start_time, now, live,
          zombie, spawned, hbFile, wbuf, state, pause_event, kill_event,
          p0_active, botRunning, fitness, revs, tree, tick_outcome, hbLast,
          killSets, killRestarts, evolves, lock, rpc, snap, committed,
          task_queue, exec_pc, task, response, replies, enqueued, dequeued,
          finished, bot_pc, updates, offset, stream, handled, call, ret,
          index>>

kernelVars == <<pc, generation, params, last_good_hash, proc, start_time>>
osVars == <<live, zombie, spawned>>
hbVars == <<hbFile, wbuf>>
flagVars == <<pause_event, kill_event, p0_active, botRunning>>
gitVars == <<revs, tree>>
countVars == <<hbLast, killSets, killRestarts, evolves>>
histVars == <<tick_outcome, hbLast, killSets, killRestarts, evolves>>
lockVars == <<lock, rpc, snap, committed>>
execVars == <<task_queue, exec_pc, task, response, enqueued, dequeued, finished>>
botVars == <<bot_pc, updates, offset, stream, handled>>
fnVars == <<call, ret, index>>
opsVars == <<lockVars, execVars, botVars, replies, fnVars>>

-----------------------------------------------------------------------------
(* Bounds of the model *)

MaxTime == 4        \* the clock stops advancing here
MaxGen == 2         \* the kernel does not advance past this generation
MaxKills == 1       \* /kill commands the operator issues
RuntimeLo == 2      \* smallest max_runtime_sec, in clock units
RuntimeSpan == 2    \* number of distinct max_runtime_sec values

(* Configuration and constants of the program, in clock units *)

Seed == 0           \* evolution.seed
Interval == 1       \* heartbeat_interval_sec
Timeout == 2        \* heartbeat_timeout_sec
PollSleep == 1      \* wait_for_heartbeat's polling sleep
ScoreScale == 100   \* a score s is kept as s * 100
ScoreCap == 99      \* 0.99

\* every worker the kernel can start within the bounds
Pids == 1..(MaxGen + MaxKills + 1)

-----------------------------------------------------------------------------
(* ring0/parameter_seed.py *)

\* generate_params: a deterministic function of seed + generation.  The random
\* stream is abstracted to a fixed function with values inside the ranges.
generate_params(g, s) ==
    [generation |-> g,
     seed |-> s,
     mutation_rate |-> 1 + (((s + g) * 7) % 50),
     max_runtime_sec |-> RuntimeLo + ((s + g) % RuntimeSpan)]

-----------------------------------------------------------------------------
(* ring0/heartbeat.py *)

NoFile == [exists |-> FALSE, lines |-> <<>>]

\* read_heartbeat: (pid, ts), or <<>> for (None, None)
read_heartbeat(f) ==
    IF ~f.exists THEN <<>>
    ELSE IF Len(f.lines) < 2 THEN <<>>
    ELSE <<f.lines[1], f.lines[2]>>

\* os.kill(pid, 0) succeeds for a running process and for an unreaped child
PidExists(p) == p \in (live \cup zombie)

is_alive ==
    LET hb == read_heartbeat(hbFile) IN
    IF hb = <<>> THEN FALSE
    ELSE IF now - hb[2] > Timeout THEN FALSE
    ELSE PidExists(hb[1])

\* wait_for_heartbeat: deadline = time.time() + startup_timeout, taken right
\* after start_time = time.time()
deadline == start_time + Timeout

-----------------------------------------------------------------------------
(* ring0/git_manager.py *)

HeadTree == IF Len(revs) = 0 THEN 0 ELSE revs[Len(revs)].tree

\* snapshot raises CalledProcessError when nothing is staged and there is no HEAD
SnapshotRaises == tree = HeadTree /\ Len(revs) = 0

\* the revision store after snapshot(message)
SnapshotRevs(phase) ==
    IF tree = HeadTree THEN revs
    ELSE Append(revs, [tree |-> tree, gen |-> generation, phase |-> phase])

\* the hash snapshot(message) returns
SnapshotHash == IF tree = HeadTree THEN Len(revs) ELSE Len(revs) + 1

\* the working tree after rollback(commit_hash)
RollbackTree(h) == revs[h].tree

-----------------------------------------------------------------------------
(* ring0/sentinel.py: worker lifecycle *)

\* Mutant: terminate() without the wait: the worker may still be running
StopRing2NoWait(p) ==
    /\ live' = live
    /\ zombie' = zombie
    /\ wbuf' = wbuf

\* _stop_ring2(proc): on return the process has exited and has been reaped
StopRing2(p) ==
    /\ live' = live \ {p}
    /\ zombie' = zombie \ {p}
    /\ wbuf' = IF wbuf # <<>> /\ wbuf[1] = p THEN <<>> ELSE wbuf

\* _start_ring2, then start_time = time.time() and the entry of wait_for_heartbeat
StartRing2 ==
    /\ spawned + 1 \in Pids
    /\ spawned' = spawned + 1
    /\ proc' = spawned + 1
    /\ live' = live \cup {spawned + 1}
    /\ start_time' = now
    /\ pc' = "wait"

-----------------------------------------------------------------------------
(* ring1/telegram_bot.py: SentinelState *)

\* SentinelState.__init__: the fields guarded by state.lock
InitialState ==
    [generation |-> 0, start_time |-> 0, alive |-> FALSE,
     mutation_rate |-> 0, max_runtime_sec |-> 0,
     last_score |-> 0, last_survived |-> FALSE]

\* the dict snapshot() fills, before its first field is read
EmptySnapshot ==
    [generation |-> 0, start_time |-> 0, alive |-> FALSE,
     mutation_rate |-> 0, max_runtime_sec |-> 0,
     last_score |-> 0, last_survived |-> FALSE, paused |-> FALSE]

\* no function is under examination
NoCall == [fn |-> "none"]

\* the threads next to the kernel, before they have done anything
OpsInit ==
    /\ lock = "free"
    /\ rpc = "idle"
    /\ snap = EmptySnapshot
    /\ committed = InitialState
    /\ task_queue = <<>>
    /\ exec_pc = "get"
    /\ task = 0
    /\ response = "none"
    /\ replies = <<>>
    /\ enqueued = 0
    /\ dequeued = <<>>
    /\ finished = 0
    /\ bot_pc = "poll"
    /\ updates = <<>>
    /\ offset = 0
    /\ stream = <<>>
    /\ handled = <<>>
    /\ call = NoCall
    /\ ret = "none"
    /\ index = 0

-----------------------------------------------------------------------------
Init ==
    /\ pc = "seed"
    /\ generation = 0
    /\ params = generate_params(0, Seed)
    /\ last_good_hash = 0
    /\ proc = 0
    /\ start_time = 0
    /\ now = 0
    /\ live = {}
    /\ zombie = {}
    /\ spawned = 0
    /\ hbFile = NoFile
    /\ wbuf = <<>>
    /\ state = InitialState
    /\ pause_event = FALSE
    /\ kill_event = FALSE
    /\ p0_active = FALSE
    /\ botRunning = TRUE
    /\ fitness = <<>>
    /\ revs = <<>>
    /\ tree = 1
    /\ tick_outcome = "none"
    /\ hbLast = <<>>
    /\ killSets = 0
    /\ killRestarts = 0
    /\ evolves = 0
    /\ OpsInit

-----------------------------------------------------------------------------
(* ring0/sentinel.py: run() *)

\* run()'s local elapsed = time.time() - start_time (line 177)
elapsed == now - start_time

\* lines 151-155: initial snapshot of the seed code
SeedSnapshot ==
    /\ pc = "seed"
    /\ IF SnapshotRaises
       THEN UNCHANGED <<last_good_hash, revs>>
       ELSE /\ last_good_hash' = SnapshotHash
            /\ revs' = SnapshotRevs("seed")
    /\ pc' = "start"
    /\ UNCHANGED <<generation, params, proc, start_time, now, osVars, hbVars,
                   state, flagVars, fitness, tree, histVars>>
    /\ UNCHANGED opsVars

\* lines 160-163: first parameters and first worker
StartFirst ==
    /\ pc = "start"
    /\ params' = generate_params(generation, Seed)
    /\ StartRing2
    /\ UNCHANGED <<generation, last_good_hash, now, zombie, hbVars, state,
                   flagVars, fitness, gitVars, histVars>>
    /\ UNCHANGED opsVars

\* Mutant: the polling loop has no deadline and waits for a heartbeat for ever
WaitForHeartbeatNoDeadline ==
    /\ pc = "wait"
    /\ IF is_alive
       THEN pc' = "sleep" /\ now' = now
       ELSE now + PollSleep <= MaxTime /\ now' = now + PollSleep /\ pc' = pc
    /\ UNCHANGED <<generation, params, last_good_hash, proc, start_time, osVars,
                   hbVars, state, flagVars, fitness, gitVars, histVars>>
    /\ UNCHANGED opsVars

\* wait_for_heartbeat: one round of the polling loop
WaitForHeartbeat ==
    /\ pc = "wait"
    /\ IF now < deadline
       THEN IF is_alive
            THEN pc' = "sleep" /\ now' = now
            ELSE now + PollSleep <= MaxTime /\ now' = now + PollSleep /\ pc' = pc
       ELSE pc' = "sleep" /\ now' = now
    /\ UNCHANGED <<generation, params, last_good_hash, proc, start_time, osVars,
                   hbVars, state, flagVars, fitness, gitVars, histVars>>
    /\ UNCHANGED opsVars

\* lines 166-177: time.sleep(interval), then elapsed = time.time() - start_time
Sleep ==
    /\ pc = "sleep"
    /\ now + Interval <= MaxTime
    /\ now' = now + Interval
    /\ pc' = "update"
    /\ UNCHANGED <<generation, params, last_good_hash, proc, start_time, osVars,
                   hbVars, state, flagVars, fitness, gitVars, histVars>>
    /\ UNCHANGED opsVars

\* Mutant: the tick publishes everything but the generation
UpdateStateWithoutGeneration ==
    /\ pc = "update"
    /\ state' = [state EXCEPT !.start_time = start_time,
                              !.alive = is_alive,
                              !.mutation_rate = params.mutation_rate,
                              !.max_runtime_sec = params.max_runtime_sec]
    /\ pc' = "pause_check"
    /\ UNCHANGED <<generation, params, last_good_hash, proc, start_time, now,
                   osVars, hbVars, flagVars, fitness, gitVars, histVars>>
    /\ UNCHANGED opsVars

\* lines 179-185: publish the progress fields under state.lock
UpdateState ==
    /\ pc = "update"
    /\ state' = [state EXCEPT !.generation = generation,
                              !.start_time = start_time,
                              !.alive = is_alive,
                              !.mutation_rate = params.mutation_rate,
                              !.max_runtime_sec = params.max_runtime_sec]
    /\ pc' = "pause_check"
    /\ UNCHANGED <<generation, params, last_good_hash, proc, start_time, now,
                   osVars, hbVars, flagVars, fitness, gitVars, histVars>>
    /\ UNCHANGED opsVars

\* Mutant: the kill flag is looked at before the pause flag
PauseCheckKillFirst ==
    /\ pc = "pause_check"
    /\ pc' = IF kill_event THEN "kill_clear"
             ELSE IF pause_event THEN "sleep" ELSE "success_check"
    /\ tick_outcome' = IF kill_event THEN "kill"
                       ELSE IF pause_event THEN "paused" ELSE tick_outcome
    /\ UNCHANGED <<generation, params, last_good_hash, proc, start_time, now,
                   osVars, hbVars, state, flagVars, fitness, gitVars, countVars>>
    /\ UNCHANGED opsVars

\* Mutant: the pause flag is not honoured
PauseCheckIgnored ==
    /\ pc = "pause_check"
    /\ pc' = "kill_check"
    /\ UNCHANGED <<generation, params, last_good_hash, proc, start_time, now,
                   osVars, hbVars, state, flagVars, fitness, gitVars, histVars>>
    /\ UNCHANGED opsVars

\* Mutant: a paused tick drops a pending kill
PauseCheckDropsKill ==
    /\ pc = "pause_check"
    /\ pc' = IF pause_event THEN "sleep" ELSE "kill_check"
    /\ kill_event' = IF pause_event THEN FALSE ELSE kill_event
    /\ tick_outcome' = IF ~pause_event THEN tick_outcome
                       ELSE IF kill_event THEN "paused, kill pending"
                       ELSE "paused"
    /\ UNCHANGED <<generation, params, last_good_hash, proc, start_time, now,
                   osVars, hbVars, state, pause_event, p0_active, botRunning,
                   fitness, gitVars, countVars>>
    /\ UNCHANGED opsVars

\* lines 187-189: if state.pause_event.is_set(): continue
PauseCheck ==
    /\ pc = "pause_check"
    /\ pc' = IF pause_event THEN "sleep" ELSE "kill_check"
    /\ tick_outcome' = IF ~pause_event THEN tick_outcome
                       ELSE IF kill_event THEN "paused, kill pending"
                       ELSE "paused"
    /\ UNCHANGED <<generation, params, last_good_hash, proc, start_time, now,
                   osVars, hbVars, state, flagVars, fitness, gitVars, countVars>>
    /\ UNCHANGED opsVars

\* line 192: if state.kill_event.is_set()
KillCheck ==
    /\ pc = "kill_check"
    /\ pc' = IF kill_event THEN "kill_clear" ELSE "success_check"
    /\ tick_outcome' = IF kill_event THEN "kill" ELSE tick_outcome
    /\ UNCHANGED <<generation, params, last_good_hash, proc, start_time, now,
                   osVars, hbVars, state, flagVars, fitness, gitVars, countVars>>
    /\ UNCHANGED opsVars

\* Mutant: the kill flag is not cleared
KillClearForgotten ==
    /\ pc = "kill_clear"
    /\ pc' = "kill_stop"
    /\ UNCHANGED <<generation, params, last_good_hash, proc, start_time, now,
                   osVars, hbVars, state, flagVars, fitness, gitVars, histVars>>
    /\ UNCHANGED opsVars

\* line 193: state.kill_event.clear()
KillClear ==
    /\ pc = "kill_clear"
    /\ kill_event' = FALSE
    /\ pc' = "kill_stop"
    /\ UNCHANGED <<generation, params, last_good_hash, proc, start_time, now,
                   osVars, hbVars, state, pause_event, p0_active, botRunning,
                   fitness, gitVars, histVars>>
    /\ UNCHANGED opsVars

\* line 195: _stop_ring2(proc) on the kill path
KillStop ==
    /\ pc = "kill_stop"
    /\ StopRing2(proc)
    /\ killRestarts' = killRestarts + 1
    /\ pc' = "kill_start"
    /\ UNCHANGED <<generation, params, last_good_hash, proc, start_time, now,
                   spawned, hbFile, state, flagVars, fitness, gitVars, tick_outcome,
                   hbLast, killSets, evolves>>
    /\ UNCHANGED opsVars

\* Mutant: the kill restart advances the generation like a terminated one
KillStartAdvancing ==
    /\ pc = "kill_start"
    /\ generation' = generation + 1
    /\ params' = generate_params(generation + 1, Seed)
    /\ StartRing2
    /\ UNCHANGED <<last_good_hash, now, zombie, hbVars, state, flagVars,
                   fitness, gitVars, histVars>>
    /\ UNCHANGED opsVars

\* lines 196-199: respawn the worker of the same generation
KillStart ==
    /\ pc = "kill_start"
    /\ StartRing2
    /\ UNCHANGED <<generation, params, last_good_hash, now, zombie, hbVars,
                   state, flagVars, fitness, gitVars, histVars>>
    /\ UNCHANGED opsVars

\* Mutant: reaching max_runtime_sec counts as survived whatever the heartbeat
SuccessCheckRewardFirst ==
    /\ pc = "success_check"
    /\ pc' = IF elapsed >= params.max_runtime_sec THEN "stop_s" ELSE "hb_check"
    /\ tick_outcome' = IF pc' = "stop_s" THEN "survived" ELSE tick_outcome
    /\ UNCHANGED <<generation, params, last_good_hash, proc, start_time, now,
                   osVars, hbVars, state, flagVars, fitness, gitVars, countVars>>
    /\ UNCHANGED opsVars

\* line 202: if elapsed >= params.max_runtime_sec and hb.is_alive()
SuccessCheck ==
    /\ pc = "success_check"
    /\ pc' = IF elapsed >= params.max_runtime_sec /\ is_alive
             THEN "stop_s" ELSE "hb_check"
    /\ tick_outcome' = IF pc' = "stop_s" THEN "survived" ELSE tick_outcome
    /\ UNCHANGED <<generation, params, last_good_hash, proc, start_time, now,
                   osVars, hbVars, state, flagVars, fitness, gitVars, countVars>>
    /\ UNCHANGED opsVars

\* lines 255-257: if hb.is_alive(): continue
HeartbeatCheck ==
    /\ pc = "hb_check"
    /\ pc' = IF is_alive THEN "sleep" ELSE "stop_f"
    /\ tick_outcome' = IF is_alive THEN "idle" ELSE "died"
    /\ UNCHANGED <<generation, params, last_good_hash, proc, start_time, now,
                   osVars, hbVars, state, flagVars, fitness, gitVars, countVars>>
    /\ UNCHANGED opsVars

\* lines 207 and 261: _stop_ring2(proc) of a terminated generation
StopWorker ==
    /\ pc \in {"stop_s", "stop_f"}
    /\ StopRing2(proc)
    /\ pc' = IF pc = "stop_s" THEN "record_s" ELSE "record_f"
    /\ UNCHANGED <<generation, params, last_good_hash, proc, start_time, now,
                   spawned, hbFile, state, flagVars, fitness, gitVars, histVars>>
    /\ UNCHANGED opsVars

Min(a, b) == IF a <= b THEN a ELSE b

\* Mutant: the ratio is not capped at 0.99
DiedScoreUncapped ==
    IF params.max_runtime_sec > 0
    THEN (elapsed * ScoreScale) \div params.max_runtime_sec
    ELSE 0

\* line 263: min(elapsed / max_runtime_sec, 0.99), 0.0 when max_runtime_sec is 0
DiedScore ==
    IF params.max_runtime_sec > 0
    THEN Min((elapsed * ScoreScale) \div params.max_runtime_sec, ScoreCap)
    ELSE 0

\* lines 214 and 263: the score of the block the kernel is in
score == IF pc \in {"record_s", "publish_s"} THEN ScoreScale ELSE DiedScore

\* lines 209-217 and 263-271: fitness.record(...)
RecordFitness ==
    /\ pc \in {"record_s", "record_f"}
    /\ fitness' = Append(fitness,
                         [generation |-> generation,
                          commit_hash |-> last_good_hash,
                          score |-> score,
                          runtime_sec |-> elapsed,
                          survived |-> (pc = "record_s")])
    /\ pc' = IF pc = "record_s" THEN "publish_s" ELSE "publish_f"
    /\ UNCHANGED <<generation, params, last_good_hash, proc, start_time, now,
                   osVars, hbVars, state, flagVars, gitVars, histVars>>
    /\ UNCHANGED opsVars

\* Mutant: the snapshot / rollback of a terminated generation is left out
PublishScoreNoRestore ==
    /\ pc \in {"publish_s", "publish_f"}
    /\ state' = [state EXCEPT !.last_score = score,
                              !.last_survived = (pc = "publish_s")]
    /\ pc' = IF pc = "publish_s" THEN "evolve_s" ELSE "evolve_f"
    /\ UNCHANGED <<generation, params, last_good_hash, proc, start_time, now,
                   osVars, hbVars, flagVars, fitness, gitVars, histVars>>
    /\ UNCHANGED opsVars

\* lines 219-221 and 273-275: last_score and last_survived under state.lock
PublishScore ==
    /\ pc \in {"publish_s", "publish_f"}
    /\ state' = [state EXCEPT !.last_score = score,
                              !.last_survived = (pc = "publish_s")]
    /\ pc' = IF pc = "publish_s" THEN "snapshot" ELSE "rollback"
    /\ UNCHANGED <<generation, params, last_good_hash, proc, start_time, now,
                   osVars, hbVars, flagVars, fitness, gitVars, histVars>>
    /\ UNCHANGED opsVars

\* lines 223-227: snapshot the surviving code
SnapshotSurvived ==
    /\ pc = "snapshot"
    /\ IF SnapshotRaises
       THEN UNCHANGED <<last_good_hash, revs>>
       ELSE /\ last_good_hash' = SnapshotHash
            /\ revs' = SnapshotRevs("survived")
    /\ pc' = "evolve_s"
    /\ UNCHANGED <<generation, params, proc, start_time, now, osVars, hbVars,
                   state, flagVars, fitness, tree, histVars>>
    /\ UNCHANGED opsVars

\* Mutant: the rollback also takes the generation counter back to the revision's
RollbackGeneration ==
    /\ pc = "rollback"
    /\ tree' = IF last_good_hash # 0 THEN RollbackTree(last_good_hash) ELSE tree
    /\ generation' = IF last_good_hash # 0 THEN revs[last_good_hash].gen
                     ELSE generation
    /\ pc' = "evolve_f"
    /\ UNCHANGED <<params, last_good_hash, proc, start_time, now, osVars,
                   hbVars, state, flagVars, fitness, revs, histVars>>
    /\ UNCHANGED opsVars

\* lines 277-280: roll back to the last known-good code
Rollback ==
    /\ pc = "rollback"
    /\ tree' = IF last_good_hash # 0 THEN RollbackTree(last_good_hash) ELSE tree
    /\ pc' = "evolve_f"
    /\ UNCHANGED <<generation, params, last_good_hash, proc, start_time, now,
                   osVars, hbVars, state, flagVars, fitness, revs, histVars>>
    /\ UNCHANGED opsVars

\* the source an evolution writes: new content, different from every revision
FreshSource == Len(revs) + evolves + 2

\* Mutant: a failure of the evolution step propagates out of the loop
TryEvolveFatal ==
    /\ pc \in {"evolve_s", "evolve_f"}
    /\ evolves' = evolves + 1
    /\ \E ok \in BOOLEAN :
          /\ tree' = IF ok THEN FreshSource ELSE tree
          /\ pc' = IF ~ok THEN "finally"
                   ELSE IF pc = "evolve_s" THEN "evolved_s" ELSE "evolved_f"
    /\ UNCHANGED <<generation, params, last_good_hash, proc, start_time, now,
                   osVars, hbVars, state, flagVars, fitness, revs, tick_outcome,
                   hbLast, killSets, killRestarts>>
    /\ UNCHANGED opsVars

\* lines 229-234 and 282-287: evolved = _try_evolve(...); if evolved: ...
\* _try_evolve returns True when the evolver has written new code, and False
\* when the API key is missing, the evolver fails or an exception is caught.
TryEvolve ==
    /\ pc \in {"evolve_s", "evolve_f"}
    /\ evolves' = evolves + 1
    /\ \E ok \in BOOLEAN :
          /\ tree' = IF ok THEN FreshSource ELSE tree
          /\ pc' = IF ~ok THEN "advance"
                   ELSE IF pc = "evolve_s" THEN "evolved_s" ELSE "evolved_f"
    /\ UNCHANGED <<generation, params, last_good_hash, proc, start_time, now,
                   osVars, hbVars, state, flagVars, fitness, revs, tick_outcome,
                   hbLast, killSets, killRestarts>>
    /\ UNCHANGED opsVars

\* Mutant: the "evolved" snapshot is taken for the last known-good revision
SnapshotEvolvedAsGood ==
    /\ pc \in {"evolved_s", "evolved_f"}
    /\ IF SnapshotRaises
       THEN UNCHANGED <<last_good_hash, revs>>
       ELSE /\ last_good_hash' = SnapshotHash
            /\ revs' = SnapshotRevs(IF pc = "evolved_s" THEN "evolved"
                                    ELSE "evolved-from-rollback")
    /\ pc' = "advance"
    /\ UNCHANGED <<generation, params, proc, start_time, now, osVars, hbVars,
                   state, flagVars, fitness, tree, histVars>>
    /\ UNCHANGED opsVars

\* lines 235-238 and 288-291: snapshot the evolved code
SnapshotEvolved ==
    /\ pc \in {"evolved_s", "evolved_f"}
    /\ IF SnapshotRaises
       THEN UNCHANGED revs
       ELSE revs' = SnapshotRevs(IF pc = "evolved_s" THEN "evolved"
                                 ELSE "evolved-from-rollback")
    /\ pc' = "advance"
    /\ UNCHANGED <<generation, params, last_good_hash, proc, start_time, now,
                   osVars, hbVars, state, flagVars, fitness, tree, histVars>>
    /\ UNCHANGED opsVars

\* Mutant: the next worker is started without generation += 1
NextGenerationNoAdvance ==
    /\ pc = "advance"
    /\ UNCHANGED <<generation, params>>
    /\ StartRing2
    /\ UNCHANGED <<last_good_hash, now, zombie, hbVars, state, flagVars,
                   fitness, gitVars, histVars>>
    /\ UNCHANGED opsVars

\* lines 246-252 and 299-305: next generation, new parameters, new worker
NextGeneration ==
    /\ pc = "advance"
    /\ generation < MaxGen
    /\ generation' = generation + 1
    /\ params' = generate_params(generation + 1, Seed)
    /\ StartRing2
    /\ UNCHANGED <<last_good_hash, now, zombie, hbVars, state, flagVars,
                   fitness, gitVars, histVars>>
    /\ UNCHANGED opsVars

\* line 307: KeyboardInterrupt, at any point of the try block
Interrupt ==
    /\ pc \notin {"seed", "finally", "done"}
    /\ pc' = "finally"
    /\ UNCHANGED <<generation, params, last_good_hash, proc, start_time, now,
                   osVars, hbVars, state, flagVars, fitness, gitVars, histVars>>
    /\ UNCHANGED opsVars

\* lines 309-313: finally: bot.stop(); _stop_ring2(proc)
Finally ==
    /\ pc = "finally"
    /\ botRunning' = FALSE
    /\ StopRing2(proc)
    /\ pc' = "done"
    /\ UNCHANGED <<generation, params, last_good_hash, proc, start_time, now,
                   spawned, hbFile, state, pause_event, kill_event, p0_active,
                   fitness, gitVars, histVars>>
    /\ UNCHANGED opsVars

-----------------------------------------------------------------------------
(* ring2/main.py and HeartbeatMonitor.write_heartbeat: the worker *)

\* path.write_text(f"{pid}\n{time.time()}\n"): the text is built, then the file
\* is opened for writing, which truncates it
WriteHeartbeatOpen(w) ==
    /\ w \in live
    /\ wbuf = <<>>
    /\ wbuf' = <<w, now>>
    /\ hbFile' = [exists |-> TRUE, lines |-> <<>>]
    /\ UNCHANGED <<kernelVars, now, osVars, state, flagVars, fitness, gitVars,
                   histVars>>
    /\ UNCHANGED opsVars

\* write_text, continued: the two lines are written and the file is closed
WriteHeartbeatFlush ==
    /\ wbuf # <<>>
    /\ wbuf[1] \in live
    /\ hbFile' = [exists |-> TRUE, lines |-> wbuf]
    /\ wbuf' = <<>>
    /\ hbLast' = wbuf
    /\ UNCHANGED <<kernelVars, now, osVars, state, flagVars, fitness, gitVars,
                   tick_outcome, killSets, killRestarts, evolves>>
    /\ UNCHANGED opsVars

\* the worker process exits on its own (crash or normal end)
WorkerExit(w) ==
    /\ w \in live
    /\ live' = live \ {w}
    /\ zombie' = zombie \cup {w}
    /\ wbuf' = IF wbuf # <<>> /\ wbuf[1] = w THEN <<>> ELSE wbuf
    /\ UNCHANGED <<kernelVars, now, spawned, hbFile, state, flagVars, fitness,
                   gitVars, histVars>>
    /\ UNCHANGED opsVars

-----------------------------------------------------------------------------
(* ring1/telegram_bot.py: operator commands that touch the flags.  The bot and
   the task executor run in daemon threads, which end with the process. *)

\* _cmd_pause
CmdPause ==
    /\ botRunning
    /\ pc # "done"
    /\ pause_event' = TRUE
    /\ UNCHANGED <<kernelVars, now, osVars, hbVars, state, kill_event,
                   p0_active, botRunning, fitness, gitVars, histVars>>
    /\ UNCHANGED opsVars

\* _cmd_resume
CmdResume ==
    /\ botRunning
    /\ pc # "done"
    /\ pause_event' = FALSE
    /\ UNCHANGED <<kernelVars, now, osVars, hbVars, state, kill_event,
                   p0_active, botRunning, fitness, gitVars, histVars>>
    /\ UNCHANGED opsVars

\* _cmd_kill
CmdKill ==
    /\ botRunning
    /\ pc # "done"
    /\ killSets < MaxKills
    /\ kill_event' = TRUE
    /\ killSets' = killSets + 1
    /\ UNCHANGED <<kernelVars, now, osVars, hbVars, state, pause_event,
                   p0_active, botRunning, fitness, gitVars, tick_outcome,
                   hbLast, killRestarts, evolves>>
    /\ UNCHANGED opsVars

-----------------------------------------------------------------------------
(* ring1/task_executor.py: _execute_task sets p0_active, works, clears it *)

\* line 93: self.state.p0_active.set()
ExecuteTaskBegin ==
    /\ pc # "done"
    /\ ~p0_active
    /\ p0_active' = TRUE
    /\ UNCHANGED <<kernelVars, now, osVars, hbVars, state, pause_event,
                   kill_event, botRunning, fitness, gitVars, histVars>>
    /\ UNCHANGED opsVars

\* lines 122-123: finally: self.state.p0_active.clear()
ExecuteTaskEnd ==
    /\ pc # "done"
    /\ p0_active
    /\ p0_active' = FALSE
    /\ UNCHANGED <<kernelVars, now, osVars, hbVars, state, pause_event,
                   kill_event, botRunning, fitness, gitVars, histVars>>
    /\ UNCHANGED opsVars

-----------------------------------------------------------------------------
Next ==
    \/ SeedSnapshot \/ StartFirst \/ WaitForHeartbeat \/ Sleep \/ UpdateState
    \/ PauseCheck \/ KillCheck \/ KillClear \/ KillStop \/ KillStart
    \/ SuccessCheck \/ HeartbeatCheck \/ StopWorker \/ RecordFitness
    \/ PublishScore \/ SnapshotSurvived \/ Rollback \/ TryEvolve
    \/ SnapshotEvolved \/ NextGeneration \/ Interrupt \/ Finally
    \/ \E w \in Pids : WriteHeartbeatOpen(w)
    \/ WriteHeartbeatFlush
    \/ \E w \in Pids : WorkerExit(w)
    \/ CmdPause \/ CmdResume \/ CmdKill
    \/ ExecuteTaskBegin \/ ExecuteTaskEnd

Spec == Init /\ [][Next]_vars

-----------------------------------------------------------------------------
(* state.lock at the grain of single field accesses.  The kernel's two `with
   state.lock` blocks (sentinel.py lines 180-185 and 219-221 / 273-275) and
   SentinelState.snapshot() (telegram_bot.py lines 46-58) are taken one field
   at a time; the rest of run() is reduced to what feeds those fields.  The
   kernel's pc and the reader's rpc name the field they access next. *)

TickFields == <<"generation", "start_time", "alive", "mutation_rate",
                "max_runtime_sec">>
SnapshotFields == <<"generation", "start_time", "alive", "mutation_rate",
                    "max_runtime_sec", "last_score", "last_survived", "paused">>

\* the position after field i of a block of fields, `last` after the final one
NextField(fields, f, last) ==
    LET i == CHOOSE j \in 1..Len(fields) : fields[j] = f
    IN  IF i < Len(fields) THEN fields[i + 1] ELSE last

InRange(fields) == {fields[i] : i \in 1..Len(fields)}

InitLock ==
    /\ pc = "tick"
    /\ generation = 0
    /\ params = generate_params(0, Seed)
    /\ last_good_hash = 0
    /\ proc = 0
    /\ start_time = 0
    /\ now = 0
    /\ live = {}
    /\ zombie = {}
    /\ spawned = 0
    /\ hbFile = NoFile
    /\ wbuf = <<>>
    /\ state = InitialState
    /\ pause_event = FALSE
    /\ kill_event = FALSE
    /\ p0_active = FALSE
    /\ botRunning = TRUE
    /\ fitness = <<>>
    /\ revs = <<>>
    /\ tree = 1
    /\ tick_outcome = "none"
    /\ hbLast = <<>>
    /\ killSets = 0
    /\ killRestarts = 0
    /\ evolves = 0
    /\ OpsInit

\* what the steps of this grain leave alone
LockFrame == <<last_good_hash, proc, osVars, hbVars, flagVars, fitness, gitVars,
               histVars, execVars, botVars, replies, fnVars>>

\* lines 166-177: time.sleep(interval) at the top of the loop
TickSleep ==
    /\ pc = "tick"
    /\ now + Interval <= MaxTime
    /\ now' = now + Interval
    /\ pc' = "tick_lock"
    /\ UNCHANGED <<generation, params, start_time, state, lockVars, LockFrame>>

\* Mutant: the kernel writes the fields without taking state.lock
KernelAcquireSkipped ==
    /\ pc \in {"tick_lock", "score_lock_s", "score_lock_f"}
    /\ pc' = (CASE pc = "tick_lock" -> TickFields[1]
                [] pc = "score_lock_s" -> "last_score_s"
                [] pc = "score_lock_f" -> "last_score_f")
    /\ UNCHANGED <<generation, params, start_time, now, state, lockVars,
                   LockFrame>>

\* lines 180, 219 and 273: with state.lock (entry)
KernelAcquire ==
    /\ pc \in {"tick_lock", "score_lock_s", "score_lock_f"}
    /\ lock = "free"
    /\ lock' = "kernel"
    /\ pc' = (CASE pc = "tick_lock" -> TickFields[1]
                [] pc = "score_lock_s" -> "last_score_s"
                [] pc = "score_lock_f" -> "last_score_f")
    /\ UNCHANGED <<generation, params, start_time, now, state, rpc, snap,
                   committed, LockFrame>>

\* lines 181-185: one assignment of the tick's block; hb.is_alive() is whatever
\* the heartbeat file says at that moment
TickWrite ==
    /\ pc \in InRange(TickFields)
    /\ \E a \in BOOLEAN :
          state' = [state EXCEPT ![pc] =
                      (CASE pc = "generation" -> generation
                         [] pc = "start_time" -> start_time
                         [] pc = "alive" -> a
                         [] pc = "mutation_rate" -> params.mutation_rate
                         [] pc = "max_runtime_sec" -> params.max_runtime_sec)]
    /\ pc' = NextField(TickFields, pc, "tick_unlock")
    /\ UNCHANGED <<generation, params, start_time, now, lockVars, LockFrame>>

\* lines 185, 221 and 275: with state.lock (exit)
KernelRelease ==
    /\ pc \in {"tick_unlock", "score_unlock"}
    /\ lock' = "free"
    /\ committed' = state
    /\ pc' = IF pc = "tick_unlock" THEN "decide" ELSE "next"
    /\ UNCHANGED <<generation, params, start_time, now, state, rpc, snap,
                   LockFrame>>

\* lines 187-257: the tick ends in `continue`, in the survived block or in the
\* failure block
TickDecide ==
    /\ pc = "decide"
    /\ pc' \in {"tick", "score_lock_s", "score_lock_f"}
    /\ pc' = "score_lock_s" => elapsed >= params.max_runtime_sec
    /\ UNCHANGED <<generation, params, start_time, now, state, lockVars,
                   LockFrame>>

\* lines 220-221 and 274-275: state.last_score, then state.last_survived
ScoreWrite ==
    /\ pc \in {"last_score_s", "last_score_f", "last_survived_s", "last_survived_f"}
    /\ state' = (CASE pc = "last_score_s" -> [state EXCEPT !.last_score = ScoreScale]
                   [] pc = "last_score_f" -> [state EXCEPT !.last_score = DiedScore]
                   [] pc = "last_survived_s" -> [state EXCEPT !.last_survived = TRUE]
                   [] pc = "last_survived_f" -> [state EXCEPT !.last_survived = FALSE])
    /\ pc' = (CASE pc = "last_score_s" -> "last_survived_s"
                [] pc = "last_score_f" -> "last_survived_f"
                [] OTHER -> "score_unlock")
    /\ UNCHANGED <<generation, params, start_time, now, lockVars, LockFrame>>

\* lines 246-252 and 299-305: generation += 1, new params, start_time
TickNextGeneration ==
    /\ pc = "next"
    /\ generation < MaxGen
    /\ generation' = generation + 1
    /\ params' = generate_params(generation + 1, Seed)
    /\ start_time' = now
    /\ pc' = "tick"
    /\ UNCHANGED <<now, state, lockVars, LockFrame>>

\* Mutant: snapshot() copies the fields without taking state.lock
SnapshotAcquireSkipped ==
    /\ rpc = "idle"
    /\ rpc' = SnapshotFields[1]
    /\ snap' = EmptySnapshot
    /\ UNCHANGED <<kernelVars, now, state, lock, committed, LockFrame>>

\* SentinelState.snapshot(), line 48: with self.lock (entry)
SnapshotAcquire ==
    /\ rpc = "idle"
    /\ lock = "free"
    /\ lock' = "reader"
    /\ rpc' = SnapshotFields[1]
    /\ snap' = EmptySnapshot
    /\ UNCHANGED <<kernelVars, now, state, committed, LockFrame>>

\* lines 50-57: one entry of the dict
SnapshotRead ==
    /\ rpc \in InRange(SnapshotFields)
    /\ snap' = [snap EXCEPT ![rpc] = IF rpc = "paused" THEN pause_event
                                      ELSE state[rpc]]
    /\ rpc' = NextField(SnapshotFields, rpc, "unlock")
    /\ UNCHANGED <<kernelVars, now, state, lock, committed, LockFrame>>

\* line 58: with self.lock (exit); the dict is returned
SnapshotRelease ==
    /\ rpc = "unlock"
    /\ lock' = "free"
    /\ rpc' = "returned"
    /\ UNCHANGED <<kernelVars, now, state, snap, committed, LockFrame>>

\* the caller has used the dict; a later call starts over
SnapshotReturn ==
    /\ rpc = "returned"
    /\ rpc' = "idle"
    /\ UNCHANGED <<kernelVars, now, state, lock, snap, committed, LockFrame>>

NextLock ==
    \/ TickSleep \/ KernelAcquire \/ TickWrite \/ KernelRelease \/ TickDecide
    \/ ScoreWrite \/ TickNextGeneration
    \/ SnapshotAcquire \/ SnapshotRead \/ SnapshotRelease \/ SnapshotReturn
    \/ CmdPause \/ CmdResume

SpecLock == InitLock /\ [][NextLock]_vars

-----------------------------------------------------------------------------

(* ring1/task_executor.py: the executor thread, one statement at a time.
   state.task_queue is a queue of Task objects and state.p0_active an event;
   tasks are numbered in the order they are put on the queue. *)

MaxTasks == 3       \* tasks the operator submits

\* what the executor's and the bot's steps leave alone
OpsFrame == <<kernelVars, now, osVars, hbVars, state, fitness, gitVars, histVars,
              lockVars, fnVars>>

\* a task is put on state.task_queue
Enqueue ==
    /\ enqueued < MaxTasks
    /\ enqueued' = enqueued + 1
    /\ task_queue' = Append(task_queue, enqueued + 1)
    /\ UNCHANGED <<exec_pc, task, response, dequeued, finished, replies, botVars,
                   flagVars, OpsFrame>>

\* Mutant: the executor takes the task put on the queue last
ExecGetNewest ==
    /\ exec_pc = "get"
    /\ task_queue # <<>>
    /\ task' = task_queue[Len(task_queue)]
    /\ task_queue' = SubSeq(task_queue, 1, Len(task_queue) - 1)
    /\ dequeued' = Append(dequeued, task_queue[Len(task_queue)])
    /\ exec_pc' = "set_p0"
    /\ UNCHANGED <<response, enqueued, finished, replies, botVars, flagVars,
                   OpsFrame>>

\* TaskExecutor.run, line 82: task = self.state.task_queue.get(timeout=2);
\* queue.Empty leads back to the same call
ExecGet ==
    /\ exec_pc = "get"
    /\ task_queue # <<>>
    /\ task' = Head(task_queue)
    /\ task_queue' = Tail(task_queue)
    /\ dequeued' = Append(dequeued, Head(task_queue))
    /\ exec_pc' = "set_p0"
    /\ UNCHANGED <<response, enqueued, finished, replies, botVars, flagVars,
                   OpsFrame>>

\* _execute_task, line 93: self.state.p0_active.set()
ExecSetP0 ==
    /\ exec_pc = "set_p0"
    /\ p0_active' = TRUE
    /\ exec_pc' = "context"
    /\ UNCHANGED <<task_queue, task, response, enqueued, dequeued, finished,
                   replies, botVars, pause_event, kill_event, botRunning,
                   OpsFrame>>

\* lines 96-104: state snapshot, worker source, user message
ExecContext ==
    /\ exec_pc = "context"
    /\ exec_pc' = "llm"
    /\ UNCHANGED <<task_queue, task, response, enqueued, dequeued, finished,
                   replies, botVars, flagVars, OpsFrame>>

\* ClaudeClient.send_message: it returns the text, raises LLMError, or lets
\* another exception through (json.loads on the body, a timeout while the body
\* is read: neither is an HTTPError or a URLError)
SendMessageOutcomes == {"text", "LLMError", "exception"}

\* Mutant: no try / finally around the body, an exception leaves p0_active set
ExecLLMNoFinally ==
    /\ exec_pc = "llm"
    /\ \E r \in SendMessageOutcomes :
          /\ response' = (CASE r = "text" -> "answer"
                            [] r = "LLMError" -> "sorry"
                            [] r = "exception" -> "none")
          /\ exec_pc' = IF r = "exception" THEN "get" ELSE "reply"
          /\ task' = IF r = "exception" THEN 0 ELSE task
          /\ finished' = IF r = "exception" THEN finished + 1 ELSE finished
    /\ UNCHANGED <<task_queue, enqueued, dequeued, replies, botVars,
                   flagVars, OpsFrame>>

\* lines 106-115: the LLM call; LLMError becomes the "Sorry, ..." text, any
\* other exception leaves the try block for the finally clause
ExecLLM ==
    /\ exec_pc = "llm"
    /\ \E r \in SendMessageOutcomes :
          /\ response' = (CASE r = "text" -> "answer"
                            [] r = "LLMError" -> "sorry"
                            [] r = "exception" -> "none")
          /\ exec_pc' = IF r = "exception" THEN "clear" ELSE "reply"
    /\ UNCHANGED <<task_queue, task, enqueued, dequeued, finished, replies,
                   botVars, flagVars, OpsFrame>>

\* lines 117-121: self.reply_fn(response); an exception of reply_fn is logged
ExecReply ==
    /\ exec_pc = "reply"
    /\ \E ok \in BOOLEAN :
          replies' = Append(replies, [from |-> "executor", task |-> task,
                                      text |-> response, delivered |-> ok])
    /\ exec_pc' = "clear"
    /\ UNCHANGED <<task_queue, task, response, enqueued, dequeued, finished,
                   botVars, flagVars, OpsFrame>>

\* lines 122-123: finally: self.state.p0_active.clear(); back in run()
ExecClear ==
    /\ exec_pc = "clear"
    /\ p0_active' = FALSE
    /\ exec_pc' = "get"
    /\ task' = 0
    /\ response' = "none"
    /\ finished' = finished + 1
    /\ UNCHANGED <<task_queue, enqueued, dequeued, replies, botVars,
                   pause_event, kill_event, botRunning, OpsFrame>>

\* the executor thread and the tasks arriving on its queue
NextExec ==
    \/ Enqueue \/ ExecGet \/ ExecSetP0 \/ ExecContext \/ ExecLLM \/ ExecReply
    \/ ExecClear

SpecExec == Init /\ [][NextExec]_vars

-----------------------------------------------------------------------------
(* ring1/telegram_bot.py: TelegramBot.run(), one update at a time *)

MaxUpdates == 3     \* updates the chat transport delivers

ChatId == "operator"                    \* self.chat_id
Chats == {"operator", "stranger"}       \* str(chat.get("id", "")) of an update
Texts == {"", "/pause", "/resume", "/kill", "hello"}
Updates == [id : 1..MaxUpdates, chat : Chats, text : Texts]

\* _is_authorized(update)
IsAuthorized(u) == u.chat = ChatId

\* the text _handle_command(text) returns, for the state it is called in
CommandReply(text) ==
    CASE text = "/pause" -> IF pause_event THEN "Already paused."
                            ELSE "Evolution paused."
      [] text = "/resume" -> IF pause_event THEN "Evolution resumed."
                             ELSE "Not paused."
      [] text = "/kill" -> "Kill signal sent"
      [] OTHER -> "help"

\* the next position of the for loop over the updates of a poll
BotAdvance ==
    /\ updates' = Tail(updates)
    /\ handled' = Append(handled, Head(updates))
    /\ bot_pc' = IF Tail(updates) = <<>> THEN "poll" ELSE "auth"

\* somebody sends the bot a message: the transport gives it the next update_id
UserSends ==
    /\ Len(stream) < MaxUpdates
    /\ pc # "done"
    /\ \E c \in Chats, t \in Texts :
          stream' = Append(stream, [id |-> Len(stream) + 1, chat |-> c, text |-> t])
    /\ UNCHANGED <<bot_pc, updates, offset, handled, execVars, replies, flagVars,
                   OpsFrame>>

\* getUpdates(offset): the transport answers with updates whose id is at least
\* the offset, oldest first
Pending == {i \in 1..Len(stream) : i >= offset}
Batches ==
    IF Pending = {} THEN {}
    ELSE LET lo == CHOOSE i \in Pending : \A j \in Pending : i <= j
         IN  {SubSeq(stream, lo, k) : k \in lo..Len(stream)}

\* Mutant: the offset is set to the last id received, not past it
BotPollOffsetAtLast ==
    /\ bot_pc = "poll"
    /\ botRunning
    /\ pc # "done"
    /\ \E batch \in Batches :
          /\ updates' = batch
          /\ offset' = batch[Len(batch)].id
    /\ bot_pc' = "auth"
    /\ UNCHANGED <<stream, handled, execVars, replies, flagVars, OpsFrame>>

\* line 243 and _get_updates: updates = result.get("result", []); a non-empty list
\* moves self._offset to updates[-1]["update_id"] + 1; an empty result, or a failed
\* call, polls again
BotPoll ==
    /\ bot_pc = "poll"
    /\ botRunning
    /\ pc # "done"
    /\ \E batch \in Batches :
          /\ updates' = batch
          /\ offset' = batch[Len(batch)].id + 1
    /\ bot_pc' = "auth"
    /\ UNCHANGED <<stream, handled, execVars, replies, flagVars, OpsFrame>>

\* Mutant: every update is taken for the operator's
BotAuthorizeAnyone ==
    /\ bot_pc = "auth"
    /\ pc # "done"
    /\ IF Head(updates).text = ""
       THEN BotAdvance
       ELSE bot_pc' = "dispatch" /\ UNCHANGED <<updates, handled>>
    /\ UNCHANGED <<offset, stream, execVars, replies, flagVars, OpsFrame>>

\* lines 246-251: unauthorized updates and updates without text are skipped
BotAuthorize ==
    /\ bot_pc = "auth"
    /\ pc # "done"
    /\ IF ~IsAuthorized(Head(updates)) \/ Head(updates).text = ""
       THEN BotAdvance
       ELSE bot_pc' = "dispatch" /\ UNCHANGED <<updates, handled>>
    /\ UNCHANGED <<offset, stream, execVars, replies, flagVars, OpsFrame>>

\* lines 252-253: reply = self._handle_command(text); self._send_reply(reply)
BotDispatch ==
    /\ bot_pc = "dispatch"
    /\ pc # "done"
    /\ LET text == Head(updates).text IN
       /\ pause_event' = (CASE text = "/pause" -> TRUE
                            [] text = "/resume" -> FALSE
                            [] OTHER -> pause_event)
       /\ kill_event' = (IF text = "/kill" THEN TRUE ELSE kill_event)
       /\ \E ok \in BOOLEAN :
             replies' = Append(replies, [from |-> "bot", task |-> 0,
                                         text |-> CommandReply(text),
                                         delivered |-> ok])
    /\ BotAdvance
    /\ UNCHANGED <<offset, stream, execVars, p0_active, botRunning, OpsFrame>>

\* the bot thread and the transport it polls
NextBot == UserSends \/ BotPoll \/ BotAuthorize \/ BotDispatch

SpecBot == Init /\ [][NextBot]_vars

-----------------------------------------------------------------------------

(* ring0/sentinel.py: the operator interrupt.  KeyboardInterrupt reaches the
   main thread between any two steps of run(), also inside _start_ring2
   between the return of subprocess.Popen and the assignment to proc; the
   bot thread goes on until the process ends.  The tick is reduced to the
   places where a worker is stopped and started. *)

InitShutdown ==
    /\ pc = "spawn"
    /\ generation = 0
    /\ params = generate_params(0, Seed)
    /\ last_good_hash = 0
    /\ proc = 0
    /\ start_time = 0
    /\ now = 0
    /\ live = {}
    /\ zombie = {}
    /\ spawned = 0
    /\ hbFile = NoFile
    /\ wbuf = <<>>
    /\ state = InitialState
    /\ pause_event = FALSE
    /\ kill_event = FALSE
    /\ p0_active = FALSE
    /\ botRunning = TRUE
    /\ fitness = <<>>
    /\ revs = <<>>
    /\ tree = 1
    /\ tick_outcome = "none"
    /\ hbLast = <<>>
    /\ killSets = 0
    /\ killRestarts = 0
    /\ evolves = 0
    /\ OpsInit

\* what the steps of the reduced kernel leave alone
ShutdownFrame == <<generation, params, last_good_hash, now, hbFile, state, fitness,
                   gitVars, histVars, opsVars>>

\* _start_ring2, lines 37-41: subprocess.Popen(...) has started the child
SpawnPopen ==
    /\ pc = "spawn"
    /\ spawned + 1 \in Pids
    /\ spawned' = spawned + 1
    /\ live' = live \cup {spawned + 1}
    /\ pc' = "assign"
    /\ UNCHANGED <<proc, start_time, zombie, wbuf, flagVars, ShutdownFrame>>

\* lines 42-43 and 161-162: log, return, proc = ..., start_time = time.time()
SpawnAssign ==
    /\ pc = "assign"
    /\ proc' = spawned
    /\ start_time' = now
    /\ pc' = "running"
    /\ UNCHANGED <<osVars, wbuf, flagVars, ShutdownFrame>>

\* lines 195, 207 and 261: a tick ends the worker (kill, survived or died)
TickStop ==
    /\ pc = "running"
    /\ spawned + 1 \in Pids
    /\ StopRing2(proc)
    /\ pc' = "spawn"
    /\ UNCHANGED <<proc, start_time, spawned, flagVars, ShutdownFrame>>

\* line 307: except KeyboardInterrupt
ShutdownInterrupt ==
    /\ pc \in {"spawn", "assign", "running"}
    /\ pc' = "bot_stop"
    /\ UNCHANGED <<proc, start_time, osVars, wbuf, flagVars, ShutdownFrame>>

\* lines 310-311 and TelegramBot.stop: self._running.clear()
ShutdownBotStop ==
    /\ pc = "bot_stop"
    /\ botRunning' = FALSE
    /\ pc' = "worker_stop"
    /\ UNCHANGED <<proc, start_time, osVars, wbuf, pause_event, kill_event,
                   p0_active, ShutdownFrame>>

\* line 312: _stop_ring2(proc); run() returns and the process ends
ShutdownWorkerStop ==
    /\ pc = "worker_stop"
    /\ StopRing2(proc)
    /\ pc' = "done"
    /\ UNCHANGED <<proc, start_time, spawned, flagVars, ShutdownFrame>>

NextShutdown ==
    \/ SpawnPopen \/ SpawnAssign \/ TickStop
    \/ ShutdownInterrupt \/ ShutdownBotStop \/ ShutdownWorkerStop
    \/ UserSends \/ BotPoll \/ BotAuthorize \/ BotDispatch

SpecShutdown == InitShutdown /\ [][NextShutdown]_vars

-----------------------------------------------------------------------------

(* Functions examined in isolation: `call` holds the arguments and the local
   state of the one call in progress, `ret` what it has returned; the rest of
   the program stands still. *)

AsideInit ==
    /\ pc = "call"
    /\ generation = 0
    /\ params = generate_params(0, Seed)
    /\ last_good_hash = 0
    /\ proc = 0
    /\ start_time = 0
    /\ now = 0
    /\ live = {}
    /\ zombie = {}
    /\ spawned = 0
    /\ hbFile = NoFile
    /\ wbuf = <<>>
    /\ state = InitialState
    /\ pause_event = FALSE
    /\ kill_event = FALSE
    /\ p0_active = FALSE
    /\ botRunning = TRUE
    /\ fitness = <<>>
    /\ tick_outcome = "none"
    /\ hbLast = <<>>
    /\ killSets = 0
    /\ killRestarts = 0
    /\ evolves = 0
    /\ lock = "free"
    /\ rpc = "idle"
    /\ snap = EmptySnapshot
    /\ committed = InitialState
    /\ task_queue = <<>>
    /\ exec_pc = "get"
    /\ task = 0
    /\ response = "none"
    /\ replies = <<>>
    /\ enqueued = 0
    /\ dequeued = <<>>
    /\ finished = 0
    /\ bot_pc = "poll"
    /\ updates = <<>>
    /\ offset = 0
    /\ stream = <<>>
    /\ handled = <<>>

AsideFrame == <<kernelVars, now, osVars, hbVars, state, flagVars, fitness, histVars,
                lockVars, execVars, botVars, replies>>

-----------------------------------------------------------------------------
(* ring0/sentinel.py: _stop_ring2, statement by statement.  The worker is
   described by what it does with SIGTERM: it exits `delay` seconds after
   receiving it, or never (NoExit); a worker that is `early` may also exit
   on its own at any moment.  SIGKILL ends it. *)

MaxDelay == 6
StopTimeout == 5    \* proc.wait(timeout=5)
NoExit == 0 - 1

Handles == {"None", "exited", "running"}

StopCalls ==
    {[fn |-> "stop", handle |-> h, delay |-> d, early |-> e, pos |-> "poll",
      alive |-> (h = "running"), returncode |-> FALSE, signals |-> <<>>,
      waited |-> 0] :
        h \in Handles, d \in NoExit..MaxDelay, e \in BOOLEAN}

InitStop ==
    /\ AsideInit
    /\ revs = <<>>
    /\ tree = 1
    /\ index = 0
    /\ ret = "none"
    /\ call \in {c \in StopCalls : c.handle = "running" \/ (c.delay = 0 /\ ~c.early)}

StopFrame == <<AsideFrame, gitVars, index>>

\* Popen.poll(): reaps the child if it has exited
Poll(c) == [c EXCEPT !.returncode = c.returncode \/ ~c.alive]

\* Popen.send_signal: polls first, signals only a child not yet reaped
SendSignal(c, sig) ==
    IF Poll(c).returncode THEN Poll(c)
    ELSE [c EXCEPT !.signals = Append(c.signals, sig)]

\* the worker process ends
StopWorkerExit ==
    /\ call.fn = "stop"
    /\ call.alive
    /\ \/ call.early
       \/ /\ Len(call.signals) >= 1
          /\ call.delay # NoExit
          /\ call.waited >= call.delay
       \/ Len(call.signals) >= 2
    /\ call' = [call EXCEPT !.alive = FALSE]
    /\ UNCHANGED <<ret, StopFrame>>

\* line 48: if proc is None or proc.poll() is not None: return
StopPoll ==
    /\ call.fn = "stop"
    /\ call.pos = "poll"
    /\ IF call.handle = "None"
       THEN call' = [call EXCEPT !.pos = "done"] /\ ret' = "returned"
       ELSE IF Poll(call).returncode
            THEN call' = [Poll(call) EXCEPT !.pos = "done"] /\ ret' = "returned"
            ELSE call' = [call EXCEPT !.pos = "terminate"] /\ ret' = ret
    /\ UNCHANGED StopFrame

\* line 50: proc.terminate()
StopTerminate ==
    /\ call.fn = "stop"
    /\ call.pos = "terminate"
    /\ call' = [SendSignal(call, "SIGTERM") EXCEPT !.pos = "wait"]
    /\ UNCHANGED <<ret, StopFrame>>

\* Mutant: the wait gives up at once
StopWaitImpatient ==
    /\ call.fn = "stop"
    /\ call.pos = "wait"
    /\ IF ~call.alive
       THEN call' = [Poll(call) EXCEPT !.pos = "log"]
       ELSE call' = [call EXCEPT !.pos = "kill"]
    /\ UNCHANGED <<ret, StopFrame>>

\* lines 51-53: proc.wait(timeout=5); a second of waiting passes while the
\* worker is not due to exit
StopWait ==
    /\ call.fn = "stop"
    /\ call.pos = "wait"
    /\ IF ~call.alive
       THEN call' = [Poll(call) EXCEPT !.pos = "log"]
       ELSE IF call.waited >= StopTimeout
            THEN call' = [call EXCEPT !.pos = "kill"]
            ELSE /\ call.early \/ call.delay = NoExit \/ call.waited < call.delay
                 /\ call' = [call EXCEPT !.waited = call.waited + 1]
    /\ UNCHANGED <<ret, StopFrame>>

\* line 54: proc.kill()
StopKill ==
    /\ call.fn = "stop"
    /\ call.pos = "kill"
    /\ call' = [SendSignal(call, "SIGKILL") EXCEPT !.pos = "wait2"]
    /\ UNCHANGED <<ret, StopFrame>>

\* line 55: proc.wait(), without a timeout
StopWaitForever ==
    /\ call.fn = "stop"
    /\ call.pos = "wait2"
    /\ ~call.alive
    /\ call' = [Poll(call) EXCEPT !.pos = "log"]
    /\ UNCHANGED <<ret, StopFrame>>

\* line 56: log.info, and the function returns
StopReturn ==
    /\ call.fn = "stop"
    /\ call.pos = "log"
    /\ call' = [call EXCEPT !.pos = "done"]
    /\ ret' = "returned"
    /\ UNCHANGED StopFrame

NextStop ==
    \/ StopWorkerExit \/ StopPoll \/ StopTerminate \/ StopWait \/ StopKill
    \/ StopWaitForever \/ StopReturn

SpecStop == InitStop /\ [][NextStop]_vars

-----------------------------------------------------------------------------

(* ring0/heartbeat.py: read_heartbeat and is_alive on the text of the file.
   A line of the file is a token: a decimal integer that fits a pid_t
   ("int"), a decimal integer that does not ("huge", such as 2147483648), a
   decimal fraction ("float", such as 1.0), "nan", or anything else
   ("junk"). *)

MaxPid == 2
Stamps == 0..1

Tokens ==
    [kind : {"int"}, val : 0..MaxPid] \cup [kind : {"float"}, val : Stamps]
        \cup [kind : {"huge", "nan", "junk"}, val : {0}]

Files ==
    {NoFile} \cup {[exists |-> TRUE, lines |-> <<>>]}
        \cup {[exists |-> TRUE, lines |-> <<a>>] : a \in Tokens}
        \cup {[exists |-> TRUE, lines |-> <<a, b>>] : a, b \in Tokens}

\* int(text): ValueError unless the text is a decimal integer
IntParses(tok) == tok.kind \in {"int", "huge"}

\* float(text): ValueError for junk only; float("nan") is a float
FloatParses(tok) == tok.kind \in {"int", "float", "huge", "nan"}

\* read_heartbeat: <<pid, ts>> as parsed tokens, or <<>> for (None, None)
ReadHeartbeat(f) ==
    IF ~f.exists THEN <<>>
    ELSE IF Len(f.lines) < 2 THEN <<>>
    ELSE IF ~IntParses(f.lines[1]) THEN <<>>
    ELSE IF ~FloatParses(f.lines[2]) THEN <<>>
    ELSE <<f.lines[1], f.lines[2]>>

\* time.time() - ts > self.timeout_sec, in float arithmetic: every comparison
\* with nan is False, and a huge ts makes the difference negative
IsStale(t, ts) ==
    IF ts.kind \in {"nan", "huge"} THEN FALSE ELSE t - ts.val > Timeout

\* os.kill(pid, 0): OverflowError when pid does not fit a pid_t (it is not an
\* OSError), success for 0 (the caller's own process group) and for a
\* running process, ProcessLookupError otherwise
Probe(pid, running) ==
    IF pid.kind = "huge" THEN "OverflowError"
    ELSE IF pid.val = 0 \/ pid.val \in running THEN "ok"
    ELSE "ProcessLookupError"

AliveCalls ==
    {[fn |-> "is_alive", file |-> f, now |-> t, running |-> r, pos |-> "read",
      hb |-> <<>>] :
        f \in Files, t \in 0..MaxTime, r \in SUBSET (1..MaxPid)}

InitAlive ==
    /\ AsideInit
    /\ revs = <<>>
    /\ tree = 1
    /\ index = 0
    /\ ret = "none"
    /\ call \in AliveCalls

\* lines 42-44: pid, ts = self.read_heartbeat(); None gives False
AliveRead ==
    /\ call.fn = "is_alive"
    /\ call.pos = "read"
    /\ LET hb == ReadHeartbeat(call.file) IN
       IF hb = <<>>
       THEN call' = [call EXCEPT !.pos = "done"] /\ ret' = "False"
       ELSE call' = [call EXCEPT !.pos = "fresh", !.hb = hb] /\ ret' = ret
    /\ UNCHANGED StopFrame

\* lines 46-47: the freshness test
AliveFresh ==
    /\ call.fn = "is_alive"
    /\ call.pos = "fresh"
    /\ IF IsStale(call.now, call.hb[2])
       THEN call' = [call EXCEPT !.pos = "done"] /\ ret' = "False"
       ELSE call' = [call EXCEPT !.pos = "probe"] /\ ret' = ret
    /\ UNCHANGED StopFrame

\* lines 49-53: the probe; only OSError is caught
AliveProbe ==
    /\ call.fn = "is_alive"
    /\ call.pos = "probe"
    /\ LET res == Probe(call.hb[1], call.running) IN
       ret' = IF res = "ok" THEN "True"
              ELSE IF res = "ProcessLookupError" THEN "False"
              ELSE res
    /\ call' = [call EXCEPT !.pos = "done"]
    /\ UNCHANGED StopFrame

NextAlive == AliveRead \/ AliveFresh \/ AliveProbe

SpecAlive == InitAlive /\ [][NextAlive]_vars

-----------------------------------------------------------------------------

(* ring0/git_manager.py: snapshot and rollback, one git command per step.
   Here the working tree and the index are maps from file names to contents,
   0 meaning that the file is absent; a revision is the tree it recorded.
   Excluded names match an ignore rule of the repository (.git/info/exclude
   or the user's core.excludesFile): git add and git clean pass over them
   while they are untracked. *)

MaxRevs == 2
MaxContent == 2

Names == {"main.py", "debug.log"}
Excluded == {"debug.log"}
Trees == [Names -> 0..MaxContent]
EmptyTree == [n \in Names |-> 0]

\* the state between two calls; prev is the id the latest snapshot returned,
\* 0 once the tree has been touched or another call has been made
Idle(prev) == [fn |-> "idle", prev |-> prev]

InitGit ==
    /\ AsideInit
    /\ revs = <<>>
    /\ tree = EmptyTree
    /\ index = EmptyTree
    /\ ret = "none"
    /\ call = Idle(0)

\* the worker, the evolver or the operator writes or deletes a file
TreeEdit ==
    /\ call.fn = "idle"
    /\ \E n \in Names, c \in 0..MaxContent :
        /\ tree[n] # c
        /\ tree' = [tree EXCEPT ![n] = c]
    /\ call' = Idle(0)
    /\ UNCHANGED <<revs, index, ret, AsideFrame>>

\* snapshot(message) is called
SnapshotCall ==
    /\ call.fn = "idle"
    /\ call' = [fn |-> "snapshot", pos |-> "add", prev |-> call.prev,
                tree0 |-> tree, revs0 |-> revs, result |-> 0]
    /\ ret' = "none"
    /\ UNCHANGED <<revs, tree, index, AsideFrame>>

\* line 53: git add -A
SnapshotAdd ==
    /\ call.fn = "snapshot"
    /\ call.pos = "add"
    /\ index' = [n \in Names |->
                    IF index[n] = 0 /\ n \in Excluded THEN 0 ELSE tree[n]]
    /\ call' = [call EXCEPT !.pos = "status"]
    /\ UNCHANGED <<revs, tree, ret, AsideFrame>>

\* what git status --porcelain lists: staged changes, unstaged changes and
\* untracked files that are not excluded
StatusLines ==
    {n \in Names :
        \/ index[n] # (IF Len(revs) = 0 THEN 0 ELSE revs[Len(revs)][n])
        \/ index[n] # 0 /\ tree[n] # index[n]
        \/ index[n] = 0 /\ tree[n] # 0 /\ n \notin Excluded}

\* Mutant: commits whether or not anything is staged (commit --allow-empty)
SnapshotStatusAlwaysCommits ==
    /\ call.fn = "snapshot"
    /\ call.pos = "status"
    /\ Len(revs) < MaxRevs
    /\ call' = [call EXCEPT !.pos = "commit"]
    /\ UNCHANGED <<revs, tree, index, ret, AsideFrame>>

\* lines 55-57: status; nothing listed: return self.get_current_hash(), which
\* raises CalledProcessError in a repository without a commit
SnapshotStatus ==
    /\ call.fn = "snapshot"
    /\ call.pos = "status"
    /\ IF StatusLines = {}
       THEN IF Len(revs) = 0
            THEN call' = [call EXCEPT !.pos = "done"] /\ ret' = "CalledProcessError"
            ELSE call' = [call EXCEPT !.pos = "done", !.result = Len(revs)]
                 /\ ret' = "returned"
       ELSE /\ Len(revs) < MaxRevs
            /\ call' = [call EXCEPT !.pos = "commit"]
            /\ ret' = ret
    /\ UNCHANGED <<revs, tree, index, AsideFrame>>

\* lines 58-59: git commit -m message; return self.get_current_hash()
SnapshotCommit ==
    /\ call.fn = "snapshot"
    /\ call.pos = "commit"
    /\ revs' = Append(revs, index)
    /\ call' = [call EXCEPT !.pos = "done", !.result = Len(revs) + 1]
    /\ ret' = "returned"
    /\ UNCHANGED <<tree, index, AsideFrame>>

\* rollback(commit_hash) is called with the id of an existing revision
RollbackCall ==
    /\ call.fn = "idle"
    /\ \E r \in 1..Len(revs) :
        call' = [fn |-> "rollback", pos |-> "reset", r |-> r, tree0 |-> tree,
                 revs0 |-> revs]
    /\ ret' = "none"
    /\ UNCHANGED <<revs, tree, index, AsideFrame>>

\* line 67: git reset <hash> -- .
RollbackReset ==
    /\ call.fn = "rollback"
    /\ call.pos = "reset"
    /\ index' = revs[call.r]
    /\ call' = [call EXCEPT !.pos = "checkout"]
    /\ UNCHANGED <<revs, tree, ret, AsideFrame>>

\* line 68: git checkout -- . writes out every file of the index; with an
\* empty index the pathspec matches nothing and git fails
RollbackCheckout ==
    /\ call.fn = "rollback"
    /\ call.pos = "checkout"
    /\ IF index = EmptyTree
       THEN /\ call' = [call EXCEPT !.pos = "done"]
            /\ ret' = "CalledProcessError"
            /\ tree' = tree
       ELSE /\ call' = [call EXCEPT !.pos = "clean"]
            /\ ret' = ret
            /\ tree' = [n \in Names |-> IF index[n] # 0 THEN index[n] ELSE tree[n]]
    /\ UNCHANGED <<revs, index, AsideFrame>>

\* line 69: git clean -fd removes untracked files that are not excluded
RollbackClean ==
    /\ call.fn = "rollback"
    /\ call.pos = "clean"
    /\ tree' = [n \in Names |->
                   IF index[n] = 0 /\ n \notin Excluded THEN 0 ELSE tree[n]]
    /\ call' = [call EXCEPT !.pos = "done"]
    /\ ret' = "returned"
    /\ UNCHANGED <<revs, index, AsideFrame>>

\* the call is over; the caller has the result
GitReturn ==
    /\ call.fn \in {"snapshot", "rollback"}
    /\ call.pos = "done"
    /\ call' = Idle(IF call.fn = "snapshot" /\ ret = "returned" THEN call.result ELSE 0)
    /\ UNCHANGED <<revs, tree, index, ret, AsideFrame>>

NextGit ==
    \/ TreeEdit \/ SnapshotCall \/ SnapshotAdd \/ SnapshotStatus \/ SnapshotCommit
    \/ RollbackCall \/ RollbackReset \/ RollbackCheckout \/ RollbackClean
    \/ GitReturn

SpecGit == InitGit /\ [][NextGit]_vars

-----------------------------------------------------------------------------

(* ring1/telegram_bot.py: _handle_command on the text of a message.  A text
   is an optional run of leading white space and a list of words; a word is a
   name written in lower case or with capitals, with or without an @ suffix. *)

COMMANDS ==
    [c \in {"/status", "/history", "/top", "/code", "/pause", "/resume",
            "/kill", "/help", "/start"} |->
        CASE c = "/status" -> "_cmd_status"
          [] c = "/history" -> "_cmd_history"
          [] c = "/top" -> "_cmd_top"
          [] c = "/code" -> "_cmd_code"
          [] c = "/pause" -> "_cmd_pause"
          [] c = "/resume" -> "_cmd_resume"
          [] c = "/kill" -> "_cmd_kill"
          [] OTHER -> "_cmd_help"]

WordNames == DOMAIN COMMANDS \cup {"/bogus", "hello", "pause"}
Suffixes == {"", "@", "@MyBot"}
Words == [name : WordNames, caps : BOOLEAN, at : Suffixes]
EmptyWord == [name |-> "", caps |-> FALSE, at |-> ""]

\* what may follow the first word
Rests ==
    {<<>>, <<[name |-> "/kill", caps |-> FALSE, at |-> ""]>>,
     <<[name |-> "/pause", caps |-> FALSE, at |-> ""]>>,
     <<[name |-> "hello", caps |-> FALSE, at |-> ""]>>}

MessageTexts ==
    {[lead |-> l, words |-> <<>>] : l \in BOOLEAN}
        \cup {[lead |-> l, words |-> <<w>> \o r] :
                l \in BOOLEAN, w \in Words, r \in Rests}

\* text.strip().split()[0] if text.strip() else ""
FirstToken(text) == IF text.words = <<>> THEN EmptyWord ELSE text.words[1]

\* str.lower()
Lower(w) == [w EXCEPT !.caps = FALSE]

\* cmd.split("@")[0]
BeforeAt(w) == [w EXCEPT !.at = ""]

\* self._COMMANDS.get(cmd), None being _cmd_help: the key must equal the
\* token character by character
MethodFor(w) ==
    IF ~w.caps /\ w.at = "" /\ w.name \in DOMAIN COMMANDS
    THEN COMMANDS[w.name] ELSE "_cmd_help"

\* the flags after the method has run
PauseAfter(method) ==
    CASE method = "_cmd_pause" -> TRUE
      [] method = "_cmd_resume" -> FALSE
      [] OTHER -> pause_event

KillAfter(method) == IF method = "_cmd_kill" THEN TRUE ELSE kill_event

InitCommand ==
    /\ AsideInit
    /\ revs = <<>>
    /\ tree = 1
    /\ index = 0
    /\ ret = "none"
    /\ call = [fn |-> "handle_command", pos |-> "idle",
               text |-> [lead |-> FALSE, words |-> <<>>]]

CommandFrame == <<kernelVars, now, osVars, hbVars, state, fitness, histVars,
                  lockVars, execVars, botVars, replies, gitVars, index>>

\* run(), line 249-252: the text of an authorized update, not empty
CommandReceive ==
    /\ call.fn = "handle_command"
    /\ call.pos \in {"idle", "done"}
    /\ \E t \in MessageTexts :
        /\ t.lead \/ t.words # <<>>
        /\ call' = [call EXCEPT !.pos = "called", !.text = t]
    /\ ret' = "none"
    /\ UNCHANGED <<flagVars, CommandFrame>>

\* Mutant: the token is looked up as it was written
HandleCommandCaseSensitive ==
    /\ call.fn = "handle_command"
    /\ call.pos = "called"
    /\ LET method == MethodFor(BeforeAt(FirstToken(call.text))) IN
        /\ pause_event' = PauseAfter(method)
        /\ kill_event' = KillAfter(method)
        /\ ret' = method
    /\ call' = [call EXCEPT !.pos = "done"]
    /\ UNCHANGED <<p0_active, botRunning, CommandFrame>>

\* _handle_command(text), lines 226-234, and the method it dispatches to
HandleCommand ==
    /\ call.fn = "handle_command"
    /\ call.pos = "called"
    /\ LET method == MethodFor(BeforeAt(Lower(FirstToken(call.text)))) IN
        /\ pause_event' = PauseAfter(method)
        /\ kill_event' = KillAfter(method)
        /\ ret' = method
    /\ call' = [call EXCEPT !.pos = "done"]
    /\ UNCHANGED <<p0_active, botRunning, CommandFrame>>

NextCommand == CommandReceive \/ HandleCommand

SpecCommand == InitCommand /\ [][NextCommand]_vars

-----------------------------------------------------------------------------

(* ring1/llm_client.py: send_message, one iteration of the retry loop per
   step.  What urlopen does is the input: an HTTP error status, a network
   error (URLError), or a 200 response whose body holds a text block, holds
   none, or is not JSON. *)

RETRYABLE_CODES == {429, 500, 502, 503, 529}
MAX_RETRIES == 3
BASE_DELAY == 2     \* seconds

ErrorCodes == RETRYABLE_CODES \cup {400, 401, 404}

Outcomes ==
    [kind : {"http"}, code : ErrorCodes]
        \cup [kind : {"urlerror", "text", "notext", "notjson"}, code : {0}]

InitSend ==
    /\ AsideInit
    /\ revs = <<>>
    /\ tree = 1
    /\ index = 0
    /\ ret = "none"
    /\ call = [fn |-> "send_message", pos |-> "idle", attempt |-> 0,
               responses |-> <<>>, slept |-> <<>>]

\* send_message(system_prompt, user_message) is called: lines 48-61
SendCall ==
    /\ call.fn = "send_message"
    /\ call.pos \in {"idle", "done"}
    /\ call' = [call EXCEPT !.pos = "loop", !.attempt = 0, !.responses = <<>>,
                            !.slept = <<>>]
    /\ ret' = "none"
    /\ UNCHANGED StopFrame

\* time.sleep(_BASE_DELAY * (2 ** attempt)); continue
Backoff(c) ==
    [c EXCEPT !.slept = Append(c.slept, BASE_DELAY * (2 ^ c.attempt)),
              !.attempt = c.attempt + 1]

\* Mutant: every HTTP error is retried
SendAttemptRetriesAll ==
    /\ call.fn = "send_message"
    /\ call.pos = "loop"
    /\ call.attempt < MAX_RETRIES
    /\ \E o \in Outcomes :
        LET c == [call EXCEPT !.responses = Append(call.responses, o)] IN
        CASE o.kind = "text" -> call' = [c EXCEPT !.pos = "done"] /\ ret' = "text"
          [] o.kind = "notext" -> call' = [c EXCEPT !.pos = "done"] /\ ret' = "LLMError"
          [] o.kind = "notjson" ->
                call' = [c EXCEPT !.pos = "done"] /\ ret' = "JSONDecodeError"
          [] o.kind = "http" ->
                IF call.attempt < MAX_RETRIES - 1
                THEN call' = Backoff(c) /\ ret' = ret
                ELSE call' = [c EXCEPT !.pos = "done"] /\ ret' = "LLMError"
          [] o.kind = "urlerror" ->
                IF call.attempt < MAX_RETRIES - 1
                THEN call' = Backoff(c) /\ ret' = ret
                ELSE call' = [c EXCEPT !.pos = "done"] /\ ret' = "LLMError"
    /\ UNCHANGED StopFrame

\* lines 62-98: one iteration of for attempt in range(_MAX_RETRIES).  The
\* last iteration always returns or raises, so line 100 is never reached.
SendAttempt ==
    /\ call.fn = "send_message"
    /\ call.pos = "loop"
    /\ call.attempt < MAX_RETRIES
    /\ \E o \in Outcomes :
        LET c == [call EXCEPT !.responses = Append(call.responses, o)] IN
        CASE o.kind = "text" -> call' = [c EXCEPT !.pos = "done"] /\ ret' = "text"
          [] o.kind = "notext" -> call' = [c EXCEPT !.pos = "done"] /\ ret' = "LLMError"
          [] o.kind = "notjson" ->
                call' = [c EXCEPT !.pos = "done"] /\ ret' = "JSONDecodeError"
          [] o.kind = "http" ->
                IF o.code \in RETRYABLE_CODES /\ call.attempt < MAX_RETRIES - 1
                THEN call' = Backoff(c) /\ ret' = ret
                ELSE call' = [c EXCEPT !.pos = "done"] /\ ret' = "LLMError"
          [] o.kind = "urlerror" ->
                IF call.attempt < MAX_RETRIES - 1
                THEN call' = Backoff(c) /\ ret' = ret
                ELSE call' = [c EXCEPT !.pos = "done"] /\ ret' = "LLMError"
    /\ UNCHANGED StopFrame

NextSend == SendCall \/ SendAttempt

SpecSend == InitSend /\ [][NextSend]_vars

-----------------------------------------------------------------------------

(* ring1/skill_portal.py: _serve_report_file.  A path is a list of names and
   a name is a list of pieces of text, so that "reports_old" is "reports"
   followed by "_old" and str.startswith can be computed. *)

MaxSegs == 2

ProjectName == <<"p">>
ReportsName == <<"reports">>
SiblingName == <<"reports", "_old">>
SecretName == <<"secret">>
SubName == <<"sub">>
Up == <<"..">>

\* SkillPortal.run: reports_dir = project_root / "reports"
ReportsDir == <<ProjectName, ReportsName>>

Exts == {"html", "md", "pdf", "json"}
Stems == {"r", "missing"}

\* the directories that exist; each holds a file r.<ext> for every extension
ExistingDirs ==
    {<<ProjectName>>, ReportsDir, Append(ReportsDir, SubName),
     <<ProjectName, SiblingName>>, <<ProjectName, SecretName>>}

SegLists == UNION {[1..k -> {Up, SubName, SiblingName, SecretName}] : k \in 0..MaxSegs}

\* the part of the URL after /reports/, and whether reports_dir is set
Requests == [segs : SegLists, stem : Stems, ext : Exts, configured : BOOLEAN]

\* (reports_dir / filename).resolve(): the directory part, without ".."
RECURSIVE Resolve(_, _)
Resolve(dir, segs) ==
    IF segs = <<>> THEN dir
    ELSE LET s == Head(segs) IN
         Resolve(IF s = Up
                 THEN (IF dir = <<>> THEN dir ELSE SubSeq(dir, 1, Len(dir) - 1))
                 ELSE Append(dir, s),
                 Tail(segs))

\* the resolved path of a request: directory names, then the file name
FilePath(req) == Append(Resolve(ReportsDir, req.segs), <<req.stem, req.ext>>)

IsPrefix(a, b) == Len(a) <= Len(b) /\ SubSeq(b, 1, Len(a)) = a

\* str(path).startswith(str(dir)): a comparison of characters, in which the
\* last name of dir need only begin the name at its place in path
StrStartsWith(path, dir) ==
    /\ Len(path) >= Len(dir)
    /\ \A i \in 1..(Len(dir) - 1) : path[i] = dir[i]
    /\ IsPrefix(dir[Len(dir)], path[Len(dir)])

\* filepath.is_file()
IsFile(path) ==
    /\ SubSeq(path, 1, Len(path) - 1) \in ExistingDirs
    /\ path[Len(path)][1] = "r"

InitPortal ==
    /\ AsideInit
    /\ revs = <<>>
    /\ tree = 1
    /\ index = 0
    /\ ret = "none"
    /\ call = [fn |-> "serve_report_file", pos |-> "idle",
               req |-> [segs |-> <<>>, stem |-> "r", ext |-> "html",
                        configured |-> TRUE],
               body |-> <<>>]

\* do_GET, lines 104-105: a request for /reports/<filename>
PortalRequest ==
    /\ call.fn = "serve_report_file"
    /\ call.pos \in {"idle", "done"}
    /\ \E req \in Requests :
        call' = [call EXCEPT !.pos = "called", !.req = req, !.body = <<>>]
    /\ ret' = "none"
    /\ UNCHANGED StopFrame

\* _serve_report_file(filename), lines 215-232: the status sent, and as body
\* the file whose content was sent
ServeReportFile ==
    /\ call.fn = "serve_report_file"
    /\ call.pos = "called"
    /\ LET req == call.req
           filepath == FilePath(req)
       IN  IF req.ext # "html"
           THEN ret' = "403" /\ call' = [call EXCEPT !.pos = "done"]
           ELSE IF ~req.configured
           THEN ret' = "404" /\ call' = [call EXCEPT !.pos = "done"]
           ELSE IF ~StrStartsWith(filepath, ReportsDir)
           THEN ret' = "403" /\ call' = [call EXCEPT !.pos = "done"]
           ELSE IF ~IsFile(filepath)
           THEN ret' = "404" /\ call' = [call EXCEPT !.pos = "done"]
           ELSE ret' = "200" /\ call' = [call EXCEPT !.pos = "done", !.body = filepath]
    /\ UNCHANGED StopFrame

NextPortal == PortalRequest \/ ServeReportFile

SpecPortal == InitPortal /\ [][NextPortal]_vars

-----------------------------------------------------------------------------

(* ring0/evolution_intent.py: classify_intent.  A persistent error is its
   message; a crash log is the list of error class names the pattern
   _ERROR_PATTERN finds in its content. *)

MaxList == 4

ErrorNames == {"ValueError", "KeyError"}
Directives == {"", " ", "use less memory"}
LogMatches == {<<>>, <<"ValueError">>, <<"KeyError", "ValueError">>}

SeqsUpTo(S, n) == UNION {[1..k -> S] : k \in 0..n}

\* xs[:n]
Take(xs, n) == SubSeq(xs, 1, IF Len(xs) < n THEN Len(xs) ELSE n)

\* _extract_error_signals: the names found in the first three logs, each once,
\* in the order of their first appearance
RECURSIVE AppendNew(_, _)
AppendNew(signals, names) ==
    IF names = <<>> THEN signals
    ELSE AppendNew(IF \E i \in 1..Len(signals) : signals[i] = Head(names)
                   THEN signals ELSE Append(signals, Head(names)),
                   Tail(names))

RECURSIVE extract_error_signals(_)
extract_error_signals(logs) ==
    IF logs = <<>> THEN <<>>
    ELSE LET n == Len(logs)
         IN  AppendNew(extract_error_signals(SubSeq(logs, 1, n - 1)), logs[n])

\* Mutant: the plateau rule comes before the persistent-errors rule
classify_intent_plateau_first(survived, is_plateaued, persistent_errors, crash_logs, directive) ==
    IF directive # ""
    THEN [intent |-> "adapt", signals |-> <<"directive">>]
    ELSE IF ~survived
    THEN LET s == extract_error_signals(Take(crash_logs, 3)) \o Take(persistent_errors, 3)
         IN  [intent |-> "repair", signals |-> IF s = <<>> THEN <<"crashed">> ELSE s]
    ELSE IF is_plateaued
    THEN [intent |-> "explore", signals |-> <<"plateau">>]
    ELSE IF persistent_errors # <<>>
    THEN [intent |-> "repair", signals |-> Take(persistent_errors, 3)]
    ELSE [intent |-> "optimize", signals |-> <<"survived">>]

classify_intent(survived, is_plateaued, persistent_errors, crash_logs, directive) ==
    IF directive # ""
    THEN [intent |-> "adapt", signals |-> <<"directive">>]
    ELSE IF ~survived
    THEN LET s == extract_error_signals(Take(crash_logs, 3)) \o Take(persistent_errors, 3)
         IN  [intent |-> "repair", signals |-> IF s = <<>> THEN <<"crashed">> ELSE s]
    ELSE IF persistent_errors # <<>>
    THEN [intent |-> "repair", signals |-> Take(persistent_errors, 3)]
    ELSE IF is_plateaued
    THEN [intent |-> "explore", signals |-> <<"plateau">>]
    ELSE [intent |-> "optimize", signals |-> <<"survived">>]

InitIntent ==
    /\ AsideInit
    /\ revs = <<>>
    /\ tree = 1
    /\ index = 0
    /\ ret = "none"
    /\ call = [fn |-> "classify_intent", pos |-> "idle", survived |-> TRUE,
               is_plateaued |-> FALSE, persistent_errors |-> <<>>,
               crash_logs |-> <<>>, directive |-> "",
               result |-> [intent |-> "none", signals |-> <<>>]]

\* the caller gathers the signals of the generation that has ended
IntentCall ==
    /\ call.fn = "classify_intent"
    /\ call.pos = "idle"
    /\ \E s, p \in BOOLEAN, e \in SeqsUpTo(ErrorNames, MaxList),
          k \in 0..MaxList, m \in LogMatches, d \in Directives :
        call' = [call EXCEPT !.pos = "called", !.survived = s, !.is_plateaued = p,
                             !.persistent_errors = e,
                             !.crash_logs = [i \in 1..k |-> IF i = k THEN <<"KeyError">> ELSE m],
                             !.directive = d,
                             !.result = [intent |-> "none", signals |-> <<>>]]
    /\ ret' = "none"
    /\ UNCHANGED StopFrame

\* classify_intent(...) runs and returns
IntentReturn ==
    /\ call.fn = "classify_intent"
    /\ call.pos = "called"
    /\ call' = [call EXCEPT !.pos = "done",
                  !.result = classify_intent(call.survived, call.is_plateaued,
                                             call.persistent_errors, call.crash_logs,
                                             call.directive)]
    /\ ret' = "returned"
    /\ UNCHANGED StopFrame

NextIntent == IntentCall \/ IntentReturn

SpecIntent == InitIntent /\ [][NextIntent]_vars

-----------------------------------------------------------------------------

(* ring0/fitness.py: the fitness_log table and its queries.  Here `fitness`
   is the table, rows in rowid order; scores are small integers, equal
   scores included, and SQLite may return rows of equal score in any order. *)

MaxRows == 3

ScoreValues == 0..2

\* INTEGER PRIMARY KEY: the rowid of an insert is the largest rowid plus one
NextRowId == IF fitness = <<>> THEN 1 ELSE fitness[Len(fitness)].id + 1

\* LIMIT n: the first n rows, every row when n is negative
Limit(rows, n) == IF n < 0 THEN rows ELSE Take(rows, n)

\* the orders in which ORDER BY score DESC may deliver the table
ByScoreDesc ==
    {[i \in 1..Len(fitness) |-> fitness[p[i]]] :
        p \in {q \in [1..Len(fitness) -> 1..Len(fitness)] :
                 /\ \A i, j \in 1..Len(fitness) : i # j => q[i] # q[j]
                 /\ \A i, j \in 1..Len(fitness) :
                      i < j => fitness[q[i]].score >= fitness[q[j]].score}}

\* ORDER BY id DESC
ByIdDesc == [i \in 1..Len(fitness) |-> fitness[Len(fitness) + 1 - i]]

InitFitness ==
    /\ AsideInit
    /\ revs = <<>>
    /\ tree = 1
    /\ index = 0
    /\ ret = "none"
    /\ call = [fn |-> "fitness", op |-> "none", n |-> 0, rows |-> <<>>, id |-> 0]

FitnessFrame == <<kernelVars, now, osVars, hbVars, state, flagVars, histVars,
                  lockVars, execVars, botVars, replies, gitVars, index>>

\* record(generation, commit_hash, score, runtime_sec, survived)
FitnessRecord ==
    /\ call.fn = "fitness"
    /\ Len(fitness) < MaxRows
    /\ \E g \in 0..1, s \in ScoreValues :
        fitness' = Append(fitness, [id |-> NextRowId, generation |-> g, score |-> s])
    /\ call' = [call EXCEPT !.op = "record", !.id = NextRowId, !.n = 0, !.rows = <<>>]
    /\ ret' = "returned"
    /\ UNCHANGED FitnessFrame

\* Mutant: the query has no ORDER BY
FitnessGetBestUnordered ==
    /\ call.fn = "fitness"
    /\ \E n \in (0 - 1)..(MaxRows + 1) :
        call' = [call EXCEPT !.op = "get_best", !.n = n, !.rows = Limit(fitness, n),
                             !.id = 0]
    /\ ret' = "returned"
    /\ UNCHANGED <<fitness, FitnessFrame>>

\* get_best(n)
FitnessGetBest ==
    /\ call.fn = "fitness"
    /\ \E n \in (0 - 1)..(MaxRows + 1), rows \in ByScoreDesc :
        call' = [call EXCEPT !.op = "get_best", !.n = n, !.rows = Limit(rows, n),
                             !.id = 0]
    /\ ret' = "returned"
    /\ UNCHANGED <<fitness, FitnessFrame>>

\* get_history(limit)
FitnessGetHistory ==
    /\ call.fn = "fitness"
    /\ \E n \in (0 - 1)..(MaxRows + 1) :
        call' = [call EXCEPT !.op = "get_history", !.n = n,
                             !.rows = Limit(ByIdDesc, n), !.id = 0]
    /\ ret' = "returned"
    /\ UNCHANGED <<fitness, FitnessFrame>>

NextFitness == FitnessRecord \/ FitnessGetBest \/ FitnessGetHistory

SpecFitness == InitFitness /\ [][NextFitness]_vars

-----------------------------------------------------------------------------

(* ring0/evolution_intent.py: compute_blast_radius.  A source is the list of
   its lines.  difflib.unified_diff(old, new, n=0) writes the headers "--- "
   and "+++ ", and every line of old outside a matching block with "-" in
   front of it, every such line of new with "+" in front of it. *)

MaxLines == 3

SourceLines == {"x = 1", "y = 2", "++x", "--y"}

\* the lines whose text begins with "++", and with "--"
StartsPlusPlus(line) == line = "++x"
StartsMinusMinus(line) == line = "--y"

\* the length of the common run of a from i and b from j within the ranges
RECURSIVE RunLength(_, _, _, _, _, _)
RunLength(a, b, i, j, ahi, bhi) ==
    IF i > ahi \/ j > bhi \/ a[i] # b[j] THEN 0
    ELSE 1 + RunLength(a, b, i + 1, j + 1, ahi, bhi)

\* SequenceMatcher.find_longest_match: the longest block, of these the one
\* that starts earliest in a, of these the one that starts earliest in b
LongestMatch(a, b, alo, ahi, blo, bhi) ==
    LET blocks == {<<i, j, RunLength(a, b, i, j, ahi, bhi)>> : i \in alo..ahi, j \in blo..bhi}
    IN  CHOOSE m \in blocks :
            \A o \in blocks :
                \/ m[3] > o[3]
                \/ m[3] = o[3] /\ m[1] < o[1]
                \/ m[3] = o[3] /\ m[1] = o[1] /\ m[2] <= o[2]

\* SequenceMatcher.get_matching_blocks: the pairs <<i, j>> of matched lines
RECURSIVE MatchingPairs(_, _, _, _, _, _)
MatchingPairs(a, b, alo, ahi, blo, bhi) ==
    IF alo > ahi \/ blo > bhi THEN {}
    ELSE LET m == LongestMatch(a, b, alo, ahi, blo, bhi)
         IN  IF m[3] = 0 THEN {}
             ELSE {<<m[1] + d, m[2] + d>> : d \in 0..(m[3] - 1)}
                    \cup MatchingPairs(a, b, alo, m[1] - 1, blo, m[2] - 1)
                    \cup MatchingPairs(a, b, m[1] + m[3], ahi, m[2] + m[3], bhi)

Max(a, b) == IF a > b THEN a ELSE b

\* compute_blast_radius: lines 89-95 count the diff lines that start with "+"
\* but not with "+++", and with "-" but not with "---"
compute_blast_radius(old_lines, new_lines) ==
    LET pairs == MatchingPairs(old_lines, new_lines, 1, Len(old_lines), 1, Len(new_lines))
        lines_removed == Cardinality({i \in 1..Len(old_lines) :
                             /\ \A p \in pairs : p[1] # i
                             /\ ~StartsMinusMinus(old_lines[i])})
        lines_added == Cardinality({j \in 1..Len(new_lines) :
                             /\ \A p \in pairs : p[2] # j
                             /\ ~StartsPlusPlus(new_lines[j])})
        lines_changed == lines_added + lines_removed
        total_lines == Max(Max(Len(old_lines), Len(new_lines)), 1)
    IN  [lines_changed |-> lines_changed, lines_added |-> lines_added,
         lines_removed |-> lines_removed,
         scope |-> IF 10 * lines_changed > 7 * total_lines THEN "full_rewrite"
                   ELSE IF 10 * lines_changed > 3 * total_lines THEN "major"
                   ELSE IF 10 * lines_changed > total_lines THEN "moderate"
                   ELSE "minor"]

NoRadius == [lines_changed |-> 0, lines_added |-> 0, lines_removed |-> 0, scope |-> "none"]

InitBlast ==
    /\ AsideInit
    /\ revs = <<>>
    /\ tree = 1
    /\ index = 0
    /\ ret = "none"
    /\ call = [fn |-> "compute_blast_radius", pos |-> "idle", old |-> <<>>,
               new |-> <<>>, result |-> NoRadius]

\* the evolver hands over the source before and after a mutation
BlastCall ==
    /\ call.fn = "compute_blast_radius"
    /\ call.pos = "idle"
    /\ \E old, new \in SeqsUpTo(SourceLines, MaxLines) :
        call' = [call EXCEPT !.pos = "called", !.old = old, !.new = new]
    /\ ret' = "none"
    /\ UNCHANGED StopFrame

\* compute_blast_radius(old_source, new_source) runs and returns
BlastReturn ==
    /\ call.fn = "compute_blast_radius"
    /\ call.pos = "called"
    /\ call' = [call EXCEPT !.pos = "done",
                            !.result = compute_blast_radius(call.old, call.new)]
    /\ ret' = "returned"
    /\ UNCHANGED StopFrame

NextBlast == BlastCall \/ BlastReturn

SpecBlast == InitBlast /\ [][NextBlast]_vars

-----------------------------------------------------------------------------

(* ring0/parameter_seed.py: generate_params with its random generator.
   random.Random(x) is a generator whose stream of draws is a function of x
   alone; a draw u stands for random() = u / Grain, and rates are kept in
   ten-thousandths (round(..., 4)). *)

Units == 0..2
Grain == Cardinality(Units)
DrawsPerCall == 4

\* rng.uniform(a, b) = a + (b - a) * random(), rounded to 4 places
Uniform(a, b, u) == a + ((b - a) * u) \div Grain

\* rng.randint(a, b)
RandInt(a, b, u) == a + (u * (b - a + 1)) \div Grain

\* the EvolutionParams built from the draws at positions k + 1 .. k + 4
ParamsFrom(g, s, draws, k) ==
    [generation |-> g,
     seed |-> s,
     mutation_rate |-> Uniform(100, 5000, draws[k + 1]),
     population_size |-> RandInt(2, 10, draws[k + 2]),
     max_runtime_sec |-> RandInt(240, 360, draws[k + 3]),
     crossover_rate |-> Uniform(1000, 9000, draws[k + 4])]

InitParams ==
    /\ AsideInit
    /\ revs = <<>>
    /\ tree = 1
    /\ index = 0
    /\ ret = "none"
    /\ \E g \in 0..MaxGen, s \in 0..1, d \in [1..(2 * DrawsPerCall) -> Units] :
        call = [fn |-> "generate_params", generation |-> g, seed |-> s,
                draws |-> d, calls |-> 0, results |-> <<>>]

\* Mutant: the draws come from one generator shared by all calls
GenerateParamsSharedRng ==
    /\ call.fn = "generate_params"
    /\ call.calls < 2
    /\ call' = [call EXCEPT !.calls = call.calls + 1,
                  !.results = Append(call.results,
                                     ParamsFrom(call.generation, call.seed, call.draws,
                                                DrawsPerCall * call.calls))]
    /\ ret' = "returned"
    /\ UNCHANGED StopFrame

\* generate_params(generation, seed): rng = random.Random(seed + generation)
\* is a new generator, so the call reads the first four draws of its stream
GenerateParams ==
    /\ call.fn = "generate_params"
    /\ call.calls < 2
    /\ call' = [call EXCEPT !.calls = call.calls + 1,
                  !.results = Append(call.results,
                                     ParamsFrom(call.generation, call.seed, call.draws, 0))]
    /\ ret' = "returned"
    /\ UNCHANGED StopFrame

NextParams == GenerateParams

SpecParams == InitParams /\ [][NextParams]_vars

-----------------------------------------------------------------------------

-----------------------------------------------------------------------------
(* ring1/telegram_bot.py: the polling loop of TelegramBot.run() and the answers
   getUpdates can get.  What the loop does with the updates of a batch is in
   BotAuthorize and BotDispatch above; here a batch is handled in one step. *)

MaxPolls == 5       \* getUpdates calls and back-off sleeps of one run

\* what urlopen and the decoding of the body come to
Responses == {"network error", "timeout", "ok false", "ok",
              "ok, update without update_id"}

\* the responses that are a failed poll
FailedResponses == {"network error", "timeout", "ok false"}

\* _api_call: an exception is logged and gives None, as does a body whose "ok"
\* is false; otherwise the body is returned
api_call(r) == IF r \in FailedResponses THEN "None" ELSE r

\* _get_updates: [] for no result, the updates of the body, or the KeyError of
\* updates[-1]["update_id"]
get_updates(r) ==
    LET result == api_call(r) IN
    IF result = "None" THEN "[]"
    ELSE IF result = "ok" THEN "updates"
    ELSE "KeyError"

InitPoll ==
    /\ AsideInit
    /\ revs = <<>>
    /\ tree = 1
    /\ index = 0
    /\ ret = "none"
    /\ call = [fn |-> "run", pos |-> "poll", log |-> <<>>]

\* lines 241-255: while self._running.is_set(): updates = self._get_updates(),
\* the for loop over them, and the except clause of the outer try
PollGetUpdates ==
    /\ call.fn = "run"
    /\ call.pos = "poll"
    /\ botRunning
    /\ Len(call.log) < MaxPolls
    /\ \E r \in Responses :
          /\ call' = [call EXCEPT
                        !.log = Append(call.log, r),
                        !.pos = IF get_updates(r) = "KeyError"
                                THEN "except" ELSE "poll"]
          /\ ret' = get_updates(r)
    /\ UNCHANGED StopFrame

\* lines 256-260: the exception is logged; if self._running.is_set():
\* time.sleep(5)
PollBackoff ==
    /\ call.fn = "run"
    /\ call.pos = "except"
    /\ call' = [call EXCEPT
                  !.log = IF botRunning THEN Append(call.log, "sleep") ELSE call.log,
                  !.pos = "poll"]
    /\ ret' = "none"
    /\ UNCHANGED StopFrame

NextPoll == PollGetUpdates \/ PollBackoff

SpecPoll == InitPoll /\ [][NextPoll]_vars

-----------------------------------------------------------------------------
(* Progress of run().  The clock of the model is bounded, so for behaviours of
   any length the time stamps are kept relative: when the clock has reached its
   bound and the kernel is about to sleep, every time stamp is moved back by the
   length of the sleep.  A stamp that would fall below 0 stays at 0, which is
   already older than every time-out and every max_runtime_sec of the model.
   Pause is never set, /kill is issued at most MaxKills times, the kernel is not
   interrupted, and every call the kernel makes returns. *)

\* the length of the sleep the kernel is about to take
SleepLength == IF pc = "wait" THEN PollSleep ELSE Interval

\* a time stamp after the clock has been moved back
MovedBack(t) == IF t < SleepLength THEN 0 ELSE t - SleepLength

\* a heartbeat pair after the clock has been moved back
PairMovedBack(p) == IF p = <<>> THEN p ELSE <<p[1], MovedBack(p[2])>>

\* the same instant, with all time stamps counted from a later origin
ClockRebase ==
    /\ pc \in {"sleep", "wait"}
    /\ now + SleepLength > MaxTime
    /\ now' = MovedBack(now)
    /\ start_time' = MovedBack(start_time)
    /\ hbFile' = [hbFile EXCEPT !.lines = PairMovedBack(hbFile.lines)]
    /\ wbuf' = PairMovedBack(wbuf)
    /\ hbLast' = PairMovedBack(hbLast)
    /\ state' = [state EXCEPT !.start_time = MovedBack(state.start_time)]
    /\ UNCHANGED <<pc, generation, params, last_good_hash, proc, osVars,
                   flagVars, fitness, gitVars, tick_outcome, killSets,
                   killRestarts, evolves>>
    /\ UNCHANGED opsVars

\* the steps of the kernel's thread
KernelLive ==
    \/ SeedSnapshot \/ StartFirst \/ WaitForHeartbeat \/ Sleep \/ UpdateState
    \/ PauseCheck \/ KillCheck \/ KillClear \/ KillStop \/ KillStart
    \/ SuccessCheck \/ HeartbeatCheck \/ StopWorker \/ RecordFitness
    \/ PublishScore \/ SnapshotSurvived \/ Rollback \/ TryEvolve
    \/ SnapshotEvolved \/ NextGeneration \/ ClockRebase

NextLive ==
    \/ KernelLive
    \/ \E w \in Pids : WriteHeartbeatOpen(w)
    \/ WriteHeartbeatFlush
    \/ \E w \in Pids : WorkerExit(w)
    \/ CmdKill

\* the kernel's thread keeps running; nothing is assumed of the worker
SpecLive == Init /\ [][NextLive]_vars /\ WF_vars(KernelLive)

(* Properties *)

\* a step of the kernel other than the arrival of KeyboardInterrupt
KernelStep == pc' # pc /\ pc' # "finally"

\* the kernel's own variables and the stores only the kernel writes
LastEntry == fitness[Len(fitness)]
EntriesFor(g) == Cardinality({i \in 1..Len(fitness) : fitness[i].generation = g})
MaxRuntimeOf(g) == generate_params(g, Seed).max_runtime_sec

\* C1: at most one worker child process is running in every reachable state of
\* the kernel loop, so every spawn happens after the previous worker has exited.
C1_AtMostOneWorker == Cardinality(live) <= 1

\* C1 witness: a second worker runs, after a kill restart, and it is the only one
C1_Witness == killRestarts >= 1 /\ spawned >= 2 /\ live = {spawned} /\ proc = spawned

\* C2: the fitness log holds at most one entry per generation, and exactly one
\* for every generation the kernel has advanced past; the steps of a paused tick
\* and of a kill restart add no entry.
C2_OneEntryPerGeneration ==
    /\ [](\A g \in 0..MaxGen :
            /\ EntriesFor(g) <= 1
            /\ (g < generation => EntriesFor(g) = 1)
            /\ (g > generation => EntriesFor(g) = 0))
    /\ [][(pc \in {"update", "pause_check", "kill_check", "kill_clear",
                   "kill_stop", "kill_start"}) => fitness' = fitness]_vars

\* C2 witness: two generations are behind the kernel, each with its entry, and a
\* kill restart has happened
C2_Witness == generation = 2 /\ Len(fitness) = 2 /\ killRestarts >= 1

\* C3: the generation counter starts at 0 and every step leaves it alone or adds
\* exactly 1; it never decreases, also when the failure path rolls the tree back.
C3_GenerationMonotone ==
    /\ generation = 0
    /\ [][generation' = generation \/ generation' = generation + 1]_vars

\* C3 witness: the kernel has advanced after a failure whose rollback restored a
\* revision older than the head of the revision store
C3_Witness ==
    /\ generation >= 1
    /\ pc = "wait"
    /\ Len(fitness) >= 1 /\ ~LastEntry.survived
    /\ last_good_hash # 0 /\ last_good_hash < Len(revs)
    /\ tree = RollbackTree(last_good_hash)

\* C4 (as claimed): once a (pid, timestamp) pair has been written, a reader of
\* the heartbeat file obtains, at every moment of every later write, either the
\* complete pair written before or the complete pair being written; never an
\* empty or partly written file.
C4_ReaderSeesCompletePair ==
    hbLast # <<>> =>
        read_heartbeat(hbFile) \in ({hbLast} \cup (IF wbuf # <<>> THEN {wbuf} ELSE {}))

\* what the kernel owns and a kill restart must leave alone
KillFrame == <<generation, params, last_good_hash, fitness, revs, tree>>

\* C5: acting on the kill flag stops the worker, starts a new one and restarts
\* the elapsed-time clock; the generation, the parameters, last_good_hash, the
\* fitness log and the revision store stay as they are.
C5_KillRestartFrame ==
    /\ [][(pc \in {"kill_clear", "kill_stop", "kill_start"})
            => UNCHANGED KillFrame]_vars
    /\ [][(pc = "kill_check" /\ kill_event /\ KernelStep)
            => (pc' = "kill_clear" /\ UNCHANGED KillFrame)]_vars
    /\ [][(pc = "kill_stop" /\ KernelStep)
            => (pc' = "kill_start" /\ proc \notin live')]_vars
    /\ [][(pc = "kill_start" /\ KernelStep)
            => /\ pc' = "wait"
               /\ proc' # proc /\ proc' \notin live /\ live' = {proc'}
               /\ start_time' = now]_vars

\* C5 witness: a kill restart of generation 1 has just finished: new worker, new
\* clock, the log and the counter as before
C5_Witness ==
    /\ tick_outcome = "kill" /\ pc = "wait"
    /\ killRestarts = 1 /\ generation = 1 /\ Len(fitness) = 1
    /\ live = {proc} /\ start_time = now /\ now > 0

\* C6 (as claimed): on a tick with pause and kill both set, kill wins: the
\* kernel does not idle but goes on to clear kill and restart the worker.
C6_KillWinsOverPause ==
    [][(pc = "pause_check" /\ pause_event /\ kill_event /\ KernelStep)
         => pc' # "sleep"]_vars

\* C6 (amended): on a tick with pause and kill both set, pause wins: the kernel
\* idles for that tick, leaves kill set and leaves the worker alone.
C6_PauseWinsOverKill ==
    [][(pc = "pause_check" /\ pause_event /\ kill_event /\ KernelStep)
         => /\ pc' = "sleep"
            /\ kill_event'
            /\ UNCHANGED <<proc, live, zombie, spawned, start_time, generation,
                           killRestarts>>]_vars

\* C6 witness: the kernel has idled on a tick on which both flags were set
C6_Witness ==
    /\ tick_outcome = "paused, kill pending" /\ pc = "sleep"
    /\ pause_event /\ kill_event /\ killRestarts = 0

\* C7 (as claimed): a tick on which elapsed >= max_runtime_sec never takes the
\* failure path, also when the heartbeat is found stale on it.
C7_RewardPrecedesPunishment == pc = "stop_f" => elapsed < params.max_runtime_sec

\* C7 (amended): on a tick with elapsed >= max_runtime_sec whose success check
\* finds the heartbeat stale, the generation is not treated as survived: the
\* kernel goes on to the heartbeat check and, if that finds the heartbeat stale
\* too, takes the failure path and records survived = false with score 0.99.
C7_StaleAtMaxRuntimeDies ==
    /\ [][(pc = "success_check" /\ KernelStep
           /\ elapsed >= params.max_runtime_sec /\ ~is_alive)
            => pc' = "hb_check"]_vars
    /\ [][(pc = "hb_check" /\ KernelStep /\ ~is_alive) => pc' = "stop_f"]_vars
    /\ [][(pc = "record_f" /\ KernelStep /\ elapsed >= params.max_runtime_sec)
            => /\ Len(fitness') = Len(fitness) + 1
               /\ ~fitness'[Len(fitness')].survived
               /\ fitness'[Len(fitness')].score = ScoreCap
               /\ pc' = "publish_f"]_vars
    /\ [][(pc = "publish_f" /\ KernelStep) => pc' = "rollback"]_vars

\* C7 witness: a generation that reached max_runtime_sec is recorded as died
\* with score 0.99 and the kernel is about to roll back
C7_Witness ==
    /\ pc = "rollback" /\ tick_outcome = "died"
    /\ elapsed >= params.max_runtime_sec
    /\ ~LastEntry.survived /\ LastEntry.score = ScoreCap
    /\ LastEntry.generation = generation

\* C8 (as claimed): with p0_active set when the generation has been recorded,
\* the kernel does not call the evolution step.
C8_P0SuppressesEvolution ==
    [][(pc \in {"evolve_s", "evolve_f"} /\ p0_active) => evolves' = evolves]_vars

\* what a paused tick must leave alone
PauseFrame == <<generation, params, last_good_hash, proc, start_time, live,
                zombie, spawned, fitness, revs, tree, evolves, killRestarts,
                kill_event, pause_event>>

\* C9: on a tick on which pause is set and kill is not, the kernel refreshes the
\* shared-state fields and goes back to sleep: no stop, no spawn, no fitness
\* entry, no snapshot, rollback or evolution, no change of generation, whatever
\* the worker's liveness and the elapsed time; and so on every such tick.
C9_PausedTickFrame ==
    /\ [][(pc = "update" /\ KernelStep)
            => (pc' = "pause_check" /\ UNCHANGED PauseFrame)]_vars
    /\ [][(pc = "pause_check" /\ pause_event /\ ~kill_event /\ KernelStep)
            => (pc' = "sleep" /\ UNCHANGED PauseFrame /\ UNCHANGED state)]_vars

\* C9 witness: the kernel has idled on a paused tick although the worker has
\* exited, its heartbeat is stale and max_runtime_sec has elapsed
C9_Witness ==
    /\ tick_outcome = "paused" /\ pc = "sleep" /\ pause_event
    /\ proc \in zombie /\ ~is_alive
    /\ elapsed >= params.max_runtime_sec
    /\ Len(fitness) = 0

\* C10: kill is edge triggered.  The kernel clears the flag before it stops the
\* worker; every restart on the kill path consumes a /kill command of its own,
\* and a flag found set is a command no restart has consumed yet.
C10_KillEdgeTriggered ==
    /\ [](/\ killRestarts <= killSets
          /\ (kill_event =>
                killSets > killRestarts + (IF pc = "kill_stop" THEN 1 ELSE 0)))
    /\ [][(pc = "kill_check" /\ kill_event /\ KernelStep)
            => pc' = "kill_clear"]_vars
    /\ [][(pc = "kill_clear" /\ KernelStep)
            => (pc' = "kill_stop" /\ ~kill_event' /\ UNCHANGED <<live, zombie>>)]_vars
    /\ [][(pc = "kill_stop" /\ KernelStep)
            => (pc' = "kill_start" /\ killRestarts' = killRestarts + 1)]_vars
    /\ [][(pc = "kill_start" /\ KernelStep) => pc' = "wait"]_vars

\* C10 witness: one /kill, one restart, and the next tick finds the flag clear
C10_Witness ==
    /\ killSets = 1 /\ killRestarts = 1
    /\ pc = "kill_check" /\ ~kill_event /\ spawned = 2

\* the tree is the one the revision h holds
TreeAt(h) == h \in 1..Len(revs) /\ tree = revs[h].tree

\* C11: when a generation terminates the effects come in this order: the worker
\* is stopped, the fitness entry is recorded, then the "survived" snapshot or the
\* rollback to last_good_hash, then the evolution attempt, then the "evolved"
\* snapshot (only after an evolution that wrote new code), then the next spawn.
C11_TerminationOrder ==
    \* the entry is recorded after the stop and before snapshot, rollback, evolve
    /\ [][fitness' # fitness
            => /\ proc \notin live /\ proc \notin zombie
               /\ evolves = generation
               /\ UNCHANGED <<revs, tree, last_good_hash, spawned>>]_vars
    \* "survived" snapshot and rollback: after the entry, before the evolution
    /\ [][(pc \in {"snapshot", "rollback"} /\ KernelStep)
            => /\ EntriesFor(generation) = 1 /\ LastEntry.generation = generation
               /\ evolves = generation /\ evolves' = evolves
               /\ LastEntry.survived = (pc = "snapshot")]_vars
    \* the evolution starts with the entry in the log, on the snapshotted tree of
    \* a survivor or on the rolled-back tree of a failure
    /\ [][evolves' # evolves
            => /\ proc \notin live
               /\ EntriesFor(generation) = 1 /\ LastEntry.generation = generation
               /\ evolves = generation
               /\ TreeAt(last_good_hash)
               /\ (LastEntry.survived => last_good_hash = Len(revs))
               /\ UNCHANGED <<revs, spawned, fitness>>]_vars
    \* a snapshot after the evolution holds code no revision held before
    /\ [][(revs' # revs /\ evolves = generation + 1)
            => /\ Len(revs') = Len(revs) + 1
               /\ \A i \in 1..Len(revs) : revs[i].tree # revs'[Len(revs')].tree
               /\ revs'[Len(revs')].phase
                    = (IF LastEntry.survived THEN "evolved"
                       ELSE "evolved-from-rollback")
               /\ UNCHANGED <<spawned, fitness, tree>>]_vars
    \* the next generation is spawned last, on a tree the store holds
    /\ [][generation' # generation
            => /\ spawned' = spawned + 1
               /\ Len(fitness) = generation + 1 /\ LastEntry.generation = generation
               /\ evolves = generation + 1
               /\ (TreeAt(Len(revs)) \/ TreeAt(last_good_hash))
               /\ UNCHANGED <<revs, tree, fitness, evolves>>]_vars

\* C11 witness: generation 1 died after generation 0 had survived and evolved;
\* it was recorded, rolled back to the survivor, evolved again and snapshotted,
\* and generation 2 has been spawned
C11_Witness ==
    /\ generation = 2 /\ pc = "wait" /\ Len(fitness) = 2 /\ evolves = 2
    /\ fitness[1].survived /\ ~fitness[2].survived
    /\ Len(revs) = 3
    /\ revs[2].phase = "evolved" /\ revs[3].phase = "evolved-from-rollback"
    /\ last_good_hash = 1

\* C12: last_good_hash, once set, is the id a "seed" or "survived" snapshot of
\* this run returned, so it names a revision of the store; a rollback, an
\* "evolved" snapshot and a kill restart leave it alone, and every rollback
\* targets a revision that exists.
C12_LastGoodRevision ==
    /\ [](last_good_hash \in 0..Len(revs))
    \* the store only grows, so a revision once named stays
    /\ [][/\ Len(revs') >= Len(revs)
          /\ \A i \in 1..Len(revs) : revs'[i] = revs[i]]_vars
    \* it is assigned the HEAD a snapshot of the running or surviving code returns
    /\ [][last_good_hash' # last_good_hash
            => /\ last_good_hash' = Len(revs') /\ Len(revs') >= 1
               /\ revs'[Len(revs')].tree = tree /\ tree' = tree
               /\ evolves = generation
               /\ \/ generation = 0 /\ Len(fitness) = 0 /\ spawned = 0
                  \/ /\ Len(fitness) = generation + 1
                     /\ LastEntry.generation = generation /\ LastEntry.survived]_vars
    \* rollback: to an existing revision, last_good_hash as before
    /\ [][(pc = "rollback" /\ KernelStep)
            => /\ last_good_hash \in 1..Len(revs)
               /\ tree' = revs[last_good_hash].tree
               /\ UNCHANGED <<last_good_hash, revs>>]_vars
    \* "evolved" snapshot
    /\ [][(revs' # revs /\ evolves = generation + 1)
            => UNCHANGED last_good_hash]_vars
    \* kill restart
    /\ [][(pc \in {"kill_check", "kill_clear", "kill_stop", "kill_start"}
           \/ killRestarts' # killRestarts)
            => UNCHANGED last_good_hash]_vars

\* C12 witness: generation 0 died and was evolved from the rollback, generation
\* 1 survived, and its "survived" snapshot has moved last_good_hash to revision 2
C12_Witness ==
    /\ pc = "evolve_s" /\ generation = 1
    /\ last_good_hash = 2 /\ Len(revs) = 2
    /\ revs[2].phase = "evolved-from-rollback"
    /\ ~fitness[1].survived /\ fitness[2].survived
    /\ fitness[1].commit_hash = 1 /\ fitness[2].commit_hash = 1

NeverBeat == hbLast = <<>> \/ hbLast[1] # proc

C15_ScoreRange ==
    \A i \in 1..Len(fitness) :
        LET e == fitness[i] IN
        /\ e.score >= 0 /\ e.score <= ScoreScale
        /\ e.survived <=> e.score = ScoreScale
        /\ ~e.survived =>
              /\ e.score = Min((e.runtime_sec * ScoreScale)
                                  \div MaxRuntimeOf(e.generation), ScoreCap)
              /\ e.score < ScoreScale

\* C15 witness: a log with a survivor at 1.0 and, after it, a generation that
\* died part of the way through its max_runtime_sec, scored below the cap
C15_Witness ==
    /\ Len(fitness) = 2
    /\ fitness[1].survived /\ fitness[1].score = ScoreScale
    /\ ~fitness[2].survived /\ fitness[2].score > 0 /\ fitness[2].score < ScoreCap
    /\ fitness[2].runtime_sec < MaxRuntimeOf(fitness[2].generation)

\* the fields of the dict that the kernel writes
SnapshotOfState(d) ==
    [generation |-> d.generation, start_time |-> d.start_time, alive |-> d.alive,
     mutation_rate |-> d.mutation_rate, max_runtime_sec |-> d.max_runtime_sec,
     last_score |-> d.last_score, last_survived |-> d.last_survived]

\* C16: every result of snapshot() is a consistent cut: all its kernel-written
\* fields are those of one kernel commit, the latest one finished when the copy
\* was made, whatever the interleaving of the kernel's writes and the operator's
\* pause / resume; the kernel's fields do not move while the copy is made.
C16_SnapshotConsistentCut ==
    /\ [][(rpc = "unlock" /\ rpc' = "returned")
            => SnapshotOfState(snap) = committed]_vars
    /\ [](rpc \in InRange(SnapshotFields) \cup {"unlock"}
            => (lock = "reader" /\ state = committed))
    /\ [][(rpc = "paused" /\ rpc' # rpc) => snap'.paused = pause_event]_vars

\* C16 witness: a snapshot taken while the kernel waits for the lock to publish
\* the score of generation 1, holding generation 1's progress fields and
\* generation 0's score, with pause set
C16_Witness ==
    /\ rpc = "returned" /\ pc \in {"score_lock_s", "score_lock_f"}
    /\ snap.generation = 1 /\ snap.start_time > 0 /\ snap.alive
    /\ snap.max_runtime_sec = MaxRuntimeOf(1)
    /\ snap.last_survived /\ snap.last_score = ScoreScale
    /\ snap.paused

\* the executor is inside the try block of _execute_task
Executing == exec_pc \in {"context", "llm", "reply", "clear"}

\* C17: p0_active is set all the time the executor executes a task, the LLM
\* call and the reply included, and is clear once _execute_task has ended, on
\* every exit path, also when the LLM call or reply_fn raises.
C17_P0ActiveBracketsTask ==
    /\ [](Executing => (p0_active /\ task # 0))
    /\ [](exec_pc = "get" => (~p0_active /\ task = 0))
    /\ [][finished' # finished
            => (finished' = finished + 1 /\ p0_active /\ ~p0_active')]_vars
    /\ [](finished <= Len(dequeued) /\ Len(dequeued) <= finished + 1)

\* C17 witness: a task whose LLM call raised past the handler has ended with
\* p0_active clear, and the next task is in its LLM call with p0_active set
C17_Witness ==
    /\ finished = 1 /\ Len(replies) = 0
    /\ exec_pc = "llm" /\ task = 2 /\ p0_active

\* C18: tasks are taken from the queue in the order they were put on it, one at
\* a time: the next task is not taken before the previous one has ended,
\* successfully or with an error.
C18_TasksFifoOneAtATime ==
    /\ [](\A i \in 1..Len(dequeued) : dequeued[i] = i)
    /\ [](\A i \in 1..Len(task_queue) : task_queue[i] = Len(dequeued) + i)
    /\ [][dequeued' # dequeued
            => /\ finished = Len(dequeued)
               /\ task = 0 /\ ~p0_active
               /\ dequeued' = Append(dequeued, Head(task_queue))
               /\ task' = Head(task_queue)]_vars
    /\ [](Len(dequeued) - finished \in {0, 1})

\* C18 witness: two tasks were waiting together; the first has ended with an
\* error and the second, put on the queue after it, is being executed
C18_Witness ==
    /\ enqueued = 2 /\ dequeued = <<1, 2>> /\ finished = 1 /\ task = 2
    /\ Len(replies) = 1 /\ replies[1].text = "sorry" /\ replies[1].task = 1

\* number of replies the executor has handed to the channel for task t
RepliesFor(t) ==
    Cardinality({i \in 1..Len(replies) :
                    replies[i].from = "executor" /\ replies[i].task = t})

\* C19 (as claimed): every task the executor has taken gets exactly one reply,
\* the answer or an error text, whatever way the LLM call fails.
C19_ExactlyOneReply ==
    \A i \in 1..Len(dequeued) :
        /\ RepliesFor(dequeued[i]) <= 1
        /\ (i <= finished => RepliesFor(dequeued[i]) = 1)

\* the updates of the operator's chat among those the bot has gone past
Authorized(h) == SelectSeq(h, LAMBDA u : IsAuthorized(u))
CountOf(h, Test(_)) == Len(SelectSeq(h, Test))

\* C20: an update from a chat other than the operator's is dropped: whatever
\* its text it does not set or clear pause or kill, puts no task on the queue
\* and causes no reply.  The flags and the replies are those the operator's own
\* updates account for.
C20_UnauthorizedDropped ==
    /\ [][(bot_pc \in {"auth", "dispatch"} /\ ~IsAuthorized(Head(updates))
           /\ <<bot_pc, updates>>' # <<bot_pc, updates>>)
            => /\ UNCHANGED <<pause_event, kill_event, p0_active, task_queue,
                              enqueued, replies>>
               /\ updates' = Tail(updates)]_vars
    /\ [](LET own == Authorized(handled) IN
          /\ kill_event => CountOf(own, LAMBDA u : u.text = "/kill") > 0
          /\ pause_event => CountOf(own, LAMBDA u : u.text = "/pause") > 0
          /\ Len(replies) = CountOf(own, LAMBDA u : u.text # "")
          /\ task_queue = <<>> /\ enqueued = 0)

\* C20 witness: the operator has paused; a stranger's /resume, /kill and free
\* text have been dropped: pause still set, kill clear, one reply, no task
C20_Witness ==
    /\ Len(handled) = 3 /\ bot_pc = "poll"
    /\ handled[1] = [id |-> 1, chat |-> "operator", text |-> "/pause"]
    /\ handled[2] = [id |-> 2, chat |-> "stranger", text |-> "/resume"]
    /\ handled[3] = [id |-> 3, chat |-> "stranger", text |-> "/kill"]
    /\ pause_event /\ ~kill_event /\ Len(replies) = 1 /\ task_queue = <<>>

\* C21 (as claimed): an authorized message that is not a slash command is put
\* on the task queue, in arrival order, and is not answered with the command
\* list: the tasks put on the queue are as many as the operator's free-form
\* messages the bot has gone past, and none of its replies is the help text.
C21_FreeTextEnqueued ==
    LET own == Authorized(handled) IN
    /\ enqueued = CountOf(own, LAMBDA u : u.text = "hello")
    /\ \A i \in 1..Len(replies) : replies[i].text # "help"

\* C22: after a getUpdates call that returns a batch the offset is past every
\* update_id of the batch, at the highest id + 1; the offset never decreases and
\* no update is dispatched twice.
C22_OffsetPastBatch ==
    /\ [][(bot_pc = "poll" /\ bot_pc' = "auth")
            => /\ updates' # <<>>
               /\ \A i \in 1..Len(updates') : updates'[i].id < offset'
               /\ \E i \in 1..Len(updates') : updates'[i].id + 1 = offset'
               /\ \A i \in 1..Len(updates') : updates'[i].id >= offset]_vars
    /\ [][offset' >= offset]_vars
    /\ [](\A i, j \in 1..Len(handled) : i < j => handled[i].id < handled[j].id)
    /\ [](\A i \in 1..Len(handled), j \in 1..Len(updates) :
             handled[i].id < updates[j].id)

\* C22 witness: the operator's three /kill updates have been fetched and each
\* handled once, in id order, and the offset is 4
C22_Witness ==
    /\ offset = 4 /\ Len(handled) = 3 /\ bot_pc = "poll" /\ Len(stream) = 3
    /\ Len(replies) = 3
    /\ \A i \in 1..3 : handled[i].id = i /\ handled[i].chat = ChatId
                       /\ handled[i].text = "/kill"

\* C23 (as claimed): on operator interrupt the chat operator is stopped first,
\* so that no command is dispatched afterwards; the kernel finishes what its
\* tick has begun; then the worker is stopped; when the shutdown is complete no
\* worker child is running.
C23_ShutdownOrder ==
    /\ [][pc' = "done" => ~botRunning]_vars
    /\ [][~botRunning => UNCHANGED <<pause_event, kill_event, replies>>]_vars
    /\ [][(pc' = "bot_stop" /\ pc # "bot_stop") => pc = "running"]_vars
    /\ [](pc = "done" => live = {})


\* C24: _stop_ring2 sends SIGTERM to a running worker, waits at most 5 s and
\* sends SIGKILL only when the worker is still running after the full 5 s;
\* when it returns the worker has exited and has been reaped; on None or on an
\* exited worker it sends no signal.
C24_StopProtocol ==
    /\ [](call.signals \in {<<>>, <<"SIGTERM">>, <<"SIGTERM", "SIGKILL">>})
    /\ [](call.waited <= StopTimeout)
    /\ []((call.pos \in {"wait", "kill", "wait2"} /\ call.alive)
             => (call.signals # <<>> /\ call.signals[1] = "SIGTERM"))
    /\ [][(Len(call.signals') = 2 /\ Len(call.signals) = 1)
             => (call.alive /\ call.waited = StopTimeout)]_vars
    /\ []((ret = "returned" /\ call.handle # "None")
             => (~call.alive /\ call.returncode))
    /\ [](call.handle \in {"None", "exited"}
             => (call.signals = <<>> /\ call.waited = 0))
    /\ [][(call.pos = "poll" /\ ~call.alive) => (ret' = "returned" \/ call' = call)]_vars

\* C24 witness: a worker that ignores SIGTERM has been killed after 5 s and the
\* call has returned
C24_Witness ==
    /\ call.fn = "stop"
    /\ ret = "returned"
    /\ call.handle = "running"
    /\ call.delay = NoExit
    /\ ~call.early
    /\ call.signals = <<"SIGTERM", "SIGKILL">>
    /\ call.waited = StopTimeout
    /\ ~call.alive


\* C25 (as claimed): is_alive() returns True exactly when the file exists, its
\* first two lines are an integer pid and a number ts with now - ts <= timeout,
\* and a process with that pid is running; in every other case it returns
\* False; it never raises.  (Pid 0, which names no process but which the probe
\* accepts, is left out of the statement.)
C25_IsAliveExact ==
    (call.fn = "is_alive" /\ call.pos = "done") =>
        LET f == call.file
            wellFormed == /\ f.exists
                          /\ Len(f.lines) >= 2
                          /\ f.lines[1].kind \in {"int", "huge"}
                          /\ f.lines[2].kind \in {"int", "float", "huge", "nan"}
            inTime == /\ f.lines[2].kind # "nan"
                      /\ \/ f.lines[2].kind = "huge"
                         \/ call.now - f.lines[2].val <= Timeout
            exists == f.lines[1].kind = "int" /\ f.lines[1].val \in call.running
            zero == wellFormed /\ f.lines[1].kind = "int" /\ f.lines[1].val = 0
        IN  \/ zero /\ ret \in {"True", "False"}
            \/ ~zero /\ ret = IF wellFormed /\ inTime /\ exists THEN "True" ELSE "False"


\* C26 (as claimed): when rollback(r) is over the working tree holds exactly
\* the files and contents of revision r, and the head and the history are
\* what they were when it was called.
C26_RollbackExact ==
    (call.fn = "rollback" /\ call.pos = "done") =>
        /\ ret = "returned"
        /\ tree = revs[call.r]
        /\ revs = call.revs0

\* C27: snapshot on a tree that equals the head revision creates no revision
\* and returns the head id; a snapshot called right after a snapshot returns
\* the id that one returned and leaves the history alone.
C27_SnapshotIdempotent ==
    (call.fn = "snapshot" /\ call.pos = "done") =>
        /\ (Len(call.revs0) >= 1 /\ call.tree0 = call.revs0[Len(call.revs0)])
              => (ret = "returned" /\ call.result = Len(call.revs0)
                    /\ revs = call.revs0)
        /\ call.prev # 0
              => (ret = "returned" /\ call.result = call.prev
                    /\ revs = call.revs0)

\* C27 witness: the second of two snapshots in a row has returned the head id,
\* with an older revision in the history
C27_Witness ==
    /\ call.fn = "snapshot"
    /\ call.pos = "done"
    /\ call.prev = 2
    /\ call.result = 2
    /\ Len(revs) = 2
    /\ tree = revs[2]
    /\ tree # revs[1]


\* C28: the command run is the one named by the first word of the text,
\* however it is capitalised, whatever follows an @ in it and whatever words
\* follow it; /pause sets pause, /resume clears it, /kill sets kill, and
\* every other command and every unknown word leaves pause and kill as they
\* were.
C28_FirstTokenDispatch ==
    [][(call.fn = "handle_command" /\ call.pos = "called" /\ call'.pos = "done") =>
        LET name == IF call.text.words = <<>> THEN "" ELSE call.text.words[1].name
        IN  /\ ret' = (IF name \in DOMAIN COMMANDS THEN COMMANDS[name]
                       ELSE "_cmd_help")
            /\ pause_event' = (CASE name = "/pause" -> TRUE
                                 [] name = "/resume" -> FALSE
                                 [] OTHER -> pause_event)
            /\ kill_event' = (kill_event \/ name = "/kill")
            /\ UNCHANGED <<p0_active, state>>]_vars

\* C28 witness: " /RESUME@MyBot /kill" has been handled by _cmd_resume; pause
\* and kill are clear
C28_Witness ==
    /\ call.fn = "handle_command"
    /\ call.pos = "done"
    /\ call.text = [lead |-> TRUE,
                    words |-> <<[name |-> "/resume", caps |-> TRUE, at |-> "@MyBot"],
                                [name |-> "/kill", caps |-> FALSE, at |-> ""]>>]
    /\ ret = "_cmd_resume"
    /\ ~pause_event
    /\ ~kill_event


\* C29: a call of send_message makes at most 3 requests; a request is followed
\* by another only after a retryable status (or a network error), and then
\* after a pause that starts at 2 s and doubles; a call whose requests all got
\* a retryable status ends with LLMError after exactly 3 requests; any
\* other status ends the call with LLMError and a 200 response ends it, with
\* no further request.
C29_RetryPolicy ==
    (call.fn = "send_message" /\ call.pos \in {"loop", "done"}) =>
        LET h == call.responses
            n == Len(h)
            retryable(o) == o.kind = "http" /\ o.code \in {429, 500, 502, 503, 529}
        IN  /\ n <= 3
            /\ \A i \in 1..n :
                 (i < n \/ call.pos = "loop") => (retryable(h[i]) \/ h[i].kind = "urlerror")
            /\ \A i \in 1..n :
                 (h[i].kind = "http" /\ ~retryable(h[i])) => ret = "LLMError"
            /\ \A i \in 1..n : h[i].kind = "text" => ret = "text"
            /\ (call.pos = "done" /\ \A i \in 1..n : retryable(h[i]))
                  => (n = 3 /\ ret = "LLMError")
            /\ Len(call.slept) = (IF call.pos = "done" THEN n - 1 ELSE n)
            /\ \A i \in 1..Len(call.slept) :
                 call.slept[i] = IF i = 1 THEN 2 ELSE 2 * call.slept[i - 1]

\* C29 witness: three requests answered 429, 503 and 529, pauses of 2 s and
\* 4 s between them, and LLMError
C29_Witness ==
    /\ call.fn = "send_message"
    /\ call.pos = "done"
    /\ Len(call.responses) = 3
    /\ call.responses[1].code = 429
    /\ call.responses[2].code = 503
    /\ call.responses[3].code = 529
    /\ call.slept = <<2, 4>>
    /\ ret = "LLMError"


\* C30 (as claimed): a report request is answered with the content of a file
\* only if the extension is html, md or pdf and the resolved path lies in the
\* reports directory or below it; an existing file of each of these
\* extensions in the reports directory is served; every other request gets no
\* file content.
C30_ReportAccess ==
    (call.fn = "serve_report_file" /\ call.pos = "done") =>
        LET req == call.req
            dir == Resolve(ReportsDir, req.segs)
            inside == IsPrefix(ReportsDir, dir)
            allowed == req.ext \in {"html", "md", "pdf"}
        IN  /\ ret = "200" => (allowed /\ inside /\ call.body = FilePath(req))
            /\ ret # "200" => call.body = <<>>
            /\ (allowed /\ inside /\ req.configured /\ req.stem = "r"
                   /\ dir \in ExistingDirs) => ret = "200"


\* C31: classify_intent gives adapt for a non-empty directive whatever the
\* other inputs; otherwise repair when the worker did not survive; otherwise
\* repair when there are persistent errors; otherwise explore on a plateau;
\* otherwise optimize.
C31_IntentPriority ==
    (call.fn = "classify_intent" /\ call.pos = "done") =>
        /\ call.directive # "" => call.result.intent = "adapt"
        /\ (call.directive = "" /\ ~call.survived) => call.result.intent = "repair"
        /\ (call.directive = "" /\ call.survived /\ Len(call.persistent_errors) > 0)
              => call.result.intent = "repair"
        /\ (call.directive = "" /\ call.survived /\ Len(call.persistent_errors) = 0
              /\ call.is_plateaued) => call.result.intent = "explore"
        /\ (call.directive = "" /\ call.survived /\ Len(call.persistent_errors) = 0
              /\ ~call.is_plateaued) => call.result.intent = "optimize"

\* C31 witness: a surviving, plateaued generation with persistent errors and
\* no directive has been classified as repair
C31_Witness ==
    /\ call.fn = "classify_intent"
    /\ call.pos = "done"
    /\ call.directive = ""
    /\ call.survived
    /\ call.is_plateaued
    /\ Len(call.persistent_errors) = 2
    /\ call.result.intent = "repair"
    /\ call.result.signals = call.persistent_errors


\* C32: for n >= 0, get_best(n) returns min(n, count) distinct entries in
\* non-increasing score order and no entry left out has a higher score than
\* one returned; get_history(n) returns the min(n, count) entries with the
\* highest ids, in decreasing id order; record returns the previous id plus
\* one (1 for the first), appends its entry and changes no earlier entry; the
\* queries change nothing.
C32_FitnessQueries ==
    /\ []((call.fn = "fitness" /\ call.op \in {"get_best", "get_history"} /\ call.n >= 0) =>
            LET r == call.rows
                count == Len(fitness)
                k == IF call.n < count THEN call.n ELSE count
            IN  /\ Len(r) = k
                /\ \A i \in 1..k : \E j \in 1..count : fitness[j] = r[i]
                /\ \A i, j \in 1..k : i # j => r[i].id # r[j].id
                /\ call.op = "get_best" =>
                     /\ \A i \in 1..(k - 1) : r[i].score >= r[i + 1].score
                     /\ \A j \in 1..count :
                          (\A i \in 1..k : r[i].id # fitness[j].id)
                             => \A i \in 1..k : r[i].score >= fitness[j].score
                /\ call.op = "get_history" =>
                     \A i \in 1..k : r[i].id = count + 1 - i)
    /\ [][\/ fitness' = fitness /\ call'.op # "record"
          \/ /\ call'.op = "record"
             /\ Len(fitness') = Len(fitness) + 1
             /\ SubSeq(fitness', 1, Len(fitness)) = fitness
             /\ call'.id = fitness'[Len(fitness')].id
             /\ call'.id = Len(fitness) + 1]_vars

\* C32 witness: of three entries with scores 1, 2, 2, get_best(2) has returned
\* the two of score 2, the later one first
C32_Witness ==
    /\ call.fn = "fitness"
    /\ call.op = "get_best"
    /\ call.n = 2
    /\ Len(fitness) = 3
    /\ fitness[1].score = 1
    /\ fitness[2].score = 2
    /\ fitness[3].score = 2
    /\ Len(call.rows) = 2
    /\ call.rows[1].id = 3
    /\ call.rows[2].id = 2


\* C33 (as claimed): lines_changed = lines_added + lines_removed; the scope is
\* minor, moderate, major or full_rewrite as lines_changed / max(old lines,
\* new lines, 1) is at most 0.1, 0.3, 0.7 or more; two empty sources give
\* minor with 0 changed; an empty old source and a new source of 2 lines give
\* full_rewrite with 2 added.
C33_BlastRadius ==
    (call.fn = "compute_blast_radius" /\ call.pos = "done") =>
        LET r == call.result
            total == Max(Max(Len(call.old), Len(call.new)), 1)
        IN  /\ r.lines_changed = r.lines_added + r.lines_removed
            /\ r.scope = (IF 10 * r.lines_changed <= total THEN "minor"
                          ELSE IF 10 * r.lines_changed <= 3 * total THEN "moderate"
                          ELSE IF 10 * r.lines_changed <= 7 * total THEN "major"
                          ELSE "full_rewrite")
            /\ (call.old = <<>> /\ call.new = <<>>)
                  => (r.scope = "minor" /\ r.lines_changed = 0)
            /\ (call.old = <<>> /\ Len(call.new) = 2)
                  => (r.scope = "full_rewrite" /\ r.lines_added = 2)


\* C34: two calls of generate_params with the same (generation, seed) return
\* the same value, and every value has mutation_rate in [0.01, 0.50],
\* population_size in [2, 10], max_runtime_sec in [240, 360] and
\* crossover_rate in [0.1, 0.9] (rates in ten-thousandths).
C34_ParamsPureInRange ==
    call.fn = "generate_params" =>
        /\ \A i, j \in 1..Len(call.results) : call.results[i] = call.results[j]
        /\ \A i \in 1..Len(call.results) :
            LET p == call.results[i] IN
            /\ p.generation = call.generation
            /\ p.seed = call.seed
            /\ 100 <= p.mutation_rate /\ p.mutation_rate <= 5000
            /\ 2 <= p.population_size /\ p.population_size <= 10
            /\ 240 <= p.max_runtime_sec /\ p.max_runtime_sec <= 360
            /\ 1000 <= p.crossover_rate /\ p.crossover_rate <= 9000

\* C34 witness: generate_params has been called twice for one pair, and the
\* draws that a third and later draw of the stream would give differ from the
\* first ones
C34_Witness ==
    /\ call.fn = "generate_params"
    /\ Len(call.results) = 2
    /\ call.results[1] = call.results[2]
    /\ call.results[1].population_size = 8
    /\ call.results[1].max_runtime_sec = 240
    /\ \A k \in 1..DrawsPerCall : call.draws[k] # call.draws[k + DrawsPerCall]


\* C35 (as claimed): the kernel never enters the failure path (stop, then a
\* fitness entry with survived = false) for a worker that is running and whose
\* latest completed heartbeat write is at most heartbeat_timeout_sec old.
C35_FreshWorkerNotDied ==
    pc = "stop_f" =>
        ~(/\ proc \in live
          /\ hbLast # <<>>
          /\ hbLast[1] = proc
          /\ now - hbLast[2] <= Timeout)


\* C36 (as claimed): the alive value published on a tick is the value that
\* tick's decision rests on: the kernel is on the died path only with a
\* published alive of false, and on the survived path only with a published
\* alive of true.
C36_OneObservation ==
    /\ pc = "stop_f" => ~state.alive
    /\ pc = "stop_s" => state.alive

\* C37: a kill set while pause is set is not lost.  Only the kernel's kill path
\* clears the flag; a paused tick idles and leaves it set, so after a paused
\* tick with a kill pending the flag stays set until the kernel acts on it; the
\* first tick that finds pause clear goes on to the kill check, clears the flag,
\* stops the worker and starts a new one, the generation and the fitness log
\* staying as they are.
C37_KillSurvivesPause ==
    /\ [](tick_outcome = "paused, kill pending" => kill_event)
    /\ [][(kill_event /\ ~kill_event') => pc = "kill_clear"]_vars
    /\ [][(pc = "pause_check" /\ pause_event /\ KernelStep)
            => (pc' = "sleep" /\ kill_event' = kill_event)]_vars
    /\ [][(pc = "pause_check" /\ ~pause_event /\ KernelStep)
            => (pc' = "kill_check" /\ kill_event' = kill_event)]_vars
    /\ [][(pc = "kill_check" /\ tick_outcome = "paused, kill pending" /\ KernelStep)
            => (pc' = "kill_clear" /\ tick_outcome' = "kill")]_vars
    /\ [][(pc = "kill_clear" /\ KernelStep)
            => (pc' = "kill_stop" /\ ~kill_event')]_vars
    /\ [][(pc = "kill_stop" /\ KernelStep)
            => (pc' = "kill_start" /\ proc \notin live')]_vars
    /\ [][(pc = "kill_start" /\ KernelStep)
            => (pc' = "wait" /\ proc' \in live' /\ proc' # proc)]_vars
    /\ [][(pc \in {"kill_check", "kill_clear", "kill_stop", "kill_start"}
           /\ tick_outcome \in {"paused, kill pending", "kill"})
            => UNCHANGED <<generation, fitness>>]_vars

\* C37 witness: after a paused tick that left the kill pending, pause has been
\* cleared and the kernel, on its first tick since, is at the kill check with
\* the flag still set and no restart made yet
C37_Witness ==
    /\ pc = "kill_check" /\ tick_outcome = "paused, kill pending"
    /\ ~pause_event /\ kill_event
    /\ killSets = 1 /\ killRestarts = 0 /\ generation = 1

\* C40 (as claimed): a failed getUpdates (network error, timeout or a response
\* that is not ok) is followed by a back-off sleep before the next getUpdates:
\* in the order of the bot's calls a failed poll is never directly followed by
\* another poll.
C40_BackoffAfterFailedPoll ==
    call.fn = "run" =>
        \A i \in 1..(Len(call.log) - 1) :
            call.log[i] \in FailedResponses => call.log[i + 1] = "sleep"

\* C39: the generation in the shared state is the kernel's generation or the
\* one before it, never a later one.  It is behind only from the moment the
\* kernel has advanced until its next tick (or for good, if the kernel is
\* interrupted before that tick), and every tick makes the two equal.
C39_SnapshotGenerationLag ==
    /\ [](state.generation \in {generation, generation - 1})
    /\ [](state.generation # generation
            => pc \in {"wait", "sleep", "update", "finally", "done"})
    /\ [][(pc = "update" /\ KernelStep) => state'.generation = generation']_vars
    /\ [][state'.generation # state.generation => pc = "update"]_vars

\* C39 witness: the kernel has advanced to generation 2 and is about to publish
\* it; the shared state still shows generation 1
C39_Witness ==
    /\ pc = "update" /\ generation = 2 /\ state.generation = 1
    /\ Len(fitness) = 2

\* C38 (as claimed): with pause clear, finitely many kills and calls that
\* return, every generation ends with a fitness entry and the generation counter
\* keeps growing: the kernel gets to generation MaxGen with an entry for every
\* generation before it.
C38_GenerationsTerminate ==
    <>(/\ generation = MaxGen
       /\ \A g \in 0..(MaxGen - 1) :
             \E i \in 1..Len(fitness) : fitness[i].generation = g)

====
